---- MODULE Spec2Model ----
(***************************************************************************)
(* Model of the gateway's authentication and admission core:               *)
(*   src/main/src/security/ip_status.rs  IpStatus, the status_list hash    *)
(*                                        kept in redis, its four          *)
(*                                        operations;                      *)
(*   src/main/src/sign.rs                SignedMessage: checksum address,  *)
(*                                        message hash, sign, verify.      *)
(* Strings are TLA+ strings, used as sequences of characters (Len, SubSeq, *)
(* \o).  Byte arrays (H256, Address, Signature) are written as their       *)
(* lowercase hex text, two characters per byte.                            *)
(***************************************************************************)
EXTENDS Integers, Sequences, FiniteSets, TLC

VARIABLES
    status_list,  \* the redis hash DB_STATUS_LIST: field (ip) -> stored bytes
    pc,           \* per session: "idle" | "awaiting" (inside query_async().await)
    call,         \* per session: the operation in progress, or the last one
    pipe,         \* per session: commands sent and not yet executed by redis
    replies,      \* per session: the redis values received for this call
    result,       \* per session: what the last completed call returned
    prev,         \* per session: the write call (and its result) a read follows
    was_empty,    \* per session: the hash was empty when the last write was issued
    track,        \* whether the write calls are recorded (SpecConc) or not (Spec)
    issued,       \* recorded: how many calls were issued
    order,        \* recorded: the write calls, in the order redis first executed them
    claim,        \* the SignedMessage: address, date_message, signature
    ret,          \* the last SignOps call on the claim and what it returned
    signer        \* the secret sign_message last signed the claim with, or NoSecret

store_vars ==
    <<status_list, pc, call, pipe, replies, result, prev, was_empty, track, issued, order>>

sign_vars == <<claim, ret, signer>>

vars == <<store_vars, sign_vars>>

(***************************************************************************)
(* What a call returns, and what stands for a call, a claim or a key that  *)
(* is not there yet.                                                       *)
(***************************************************************************)
\* No operation was called yet.
NoCall == [op |-> "none"]
NoRet == [op |-> "none"]

\* Result: Ok(value) or Err(e); () is written "()".
Ok(value) == [ok |-> TRUE, v |-> value]
Err(e) == [ok |-> FALSE, err |-> e]
Unit == "()"

\* The thread panicked: the call returned nothing.
Panic == [ok |-> FALSE, panic |-> TRUE]

NoPrev == [call |-> NoCall, result |-> Ok(Unit)]

\* A SignedMessage with nothing in it.
NoClaim == [address |-> "", date_message |-> "", signature |-> ""]

NoSecret == "none"

(***************************************************************************)
(* Characters and decimal text.                                            *)
(***************************************************************************)
CharAt(s, i) == SubSeq(s, i, i)

DigitChars == "0123456789"

\* Character c's place (from 1) in the alphabet, a text without repetitions.
PlaceIn(alphabet, c) == CHOOSE i \in 1..Len(alphabet) : CharAt(alphabet, i) = c

CharsOf(alphabet) == {CharAt(alphabet, i) : i \in 1..Len(alphabet)}

DigitValues == [c \in CharsOf(DigitChars) |-> PlaceIn(DigitChars, c) - 1]

\* char::is_digit(10)
IsDigit(c) == c \in DOMAIN DigitValues

DigitVal(c) == DigitValues[c]

RECURSIVE NatToString(_)
NatToString(n) ==
    IF n < 10 THEN CharAt(DigitChars, n + 1)
    ELSE NatToString(n \div 10) \o CharAt(DigitChars, (n % 10) + 1)

\* format!("{}", n) of an i8, and ToRedisArgs of an i8: its decimal text.
I8ToString(n) == IF n < 0 THEN "-" \o NatToString(-n) ELSE NatToString(n)

AllDigits(s) == \A i \in 1..Len(s) : IsDigit(CharAt(s, i))

RECURSIVE DecimalValue(_)
DecimalValue(s) ==
    IF s = "" THEN 0
    ELSE 10 * DecimalValue(SubSeq(s, 1, Len(s) - 1)) + DigitVal(CharAt(s, Len(s)))

I8_MIN == -128
I8_MAX == 127
MaxI8Digits == 3

\* The digits of s from its first one that is not 0 on.
RECURSIVE DropLeadingZeros(_)
DropLeadingZeros(s) ==
    IF Len(s) > 0 /\ CharAt(s, 1) = "0" THEN DropLeadingZeros(SubSeq(s, 2, Len(s))) ELSE s

\* str::parse::<i8>: an optional sign, then decimal digits, within the i8 range.
ParseI8(s) ==
    LET signed == Len(s) > 0 /\ CharAt(s, 1) \in {"-", "+"}
        digits == IF signed THEN SubSeq(s, 2, Len(s)) ELSE s
        \* a number of more digits than i8::MAX has is out of range
        short  == Len(DropLeadingZeros(digits)) <= MaxI8Digits
        v      == IF signed /\ CharAt(s, 1) = "-"
                  THEN -DecimalValue(DropLeadingZeros(digits))
                  ELSE DecimalValue(DropLeadingZeros(digits))
    IN  IF digits # "" /\ AllDigits(digits) /\ short /\ v >= I8_MIN /\ v <= I8_MAX
        THEN [ok |-> TRUE, v |-> v]
        ELSE [ok |-> FALSE]

(***************************************************************************)
(* IpStatus and its numeric encoding.                                      *)
(***************************************************************************)
IpStatus == {"None", "Trusted", "Blocked"}

\* `status as i8`: None = -1, then Trusted and Blocked count up from it.
IpStatusAsI8(self) ==
    CASE self = "None"    -> -1
      [] self = "Trusted" -> 0
      [] self = "Blocked" -> 1

from_i8_trusts_unknown(value) ==
    CASE value = 1 -> "Blocked"
      [] value = -1 -> "None"
      [] OTHER -> "Trusted"

from_i8(value) ==
    CASE value = 0 -> "Trusted"
      [] value = 1 -> "Blocked"
      [] OTHER -> "None"

(***************************************************************************)
(* The commands each operation sends.                                      *)
(***************************************************************************)
DB_STATUS_LIST == "status_list"

InsertCommands(ip, status) ==
    << [name |-> "HSET", key |-> DB_STATUS_LIST,
        args |-> << <<ip, I8ToString(IpStatusAsI8(status))>> >>] >>

FormattedNormalised(payload) ==
    [i \in 1..Len(payload) |->
        <<payload[i].ip, I8ToString(IpStatusAsI8(from_i8(payload[i].status)))>>]

\* payload.iter().map(|v| (v.ip.clone(), v.status)).collect()
Formatted(payload) == [i \in 1..Len(payload) |-> <<payload[i].ip, I8ToString(payload[i].status)>>]

BulkInsertCommandsPerRecord(payload) ==
    [i \in 1..Len(payload) |->
        [name |-> "HSET", key |-> DB_STATUS_LIST, args |-> << Formatted(payload)[i] >>]]

BulkInsertCommands(payload) ==
    << [name |-> "HMSET", key |-> DB_STATUS_LIST, args |-> Formatted(payload)] >>

ReadCommands(ip) == << [name |-> "HGET", key |-> DB_STATUS_LIST, args |-> <<ip>>] >>

ReadListCommands == << [name |-> "HGETALL", key |-> DB_STATUS_LIST, args |-> <<>>] >>

(***************************************************************************)
(* Redis: values, commands, and what the server does with a command.       *)
(***************************************************************************)
ValueNil == [t |-> "Nil"]
ValueOkay == [t |-> "Okay"]
ValueInt(n) == [t |-> "Int", val |-> n]
ValueData(s) == [t |-> "Data", val |-> s]
\* A reply of field/value items; HGETALL gives them in no promised order, so the
\* items are kept as a set of <<field, value>> pairs.
ValueBulk(items) == [t |-> "Bulk", val |-> items]
\* kind: "response" (the server answered with an error) or "io" (the transport).
RedisError(kind) == [t |-> "Err", kind |-> kind]

IsError(v) == v.t = "Err"

EmptyHash == [f \in {} |-> ""]

SetField(hash, f, v) == [x \in DOMAIN hash \cup {f} |-> IF x = f THEN v ELSE hash[x]]

\* The field/value pairs of a HSET or HMSET, applied left to right.
RECURSIVE SetFields(_, _)
SetFields(hash, pairs) ==
    IF pairs = <<>> THEN hash
    ELSE SetFields(SetField(hash, Head(pairs)[1], Head(pairs)[2]), Tail(pairs))

IsWriteCommand(cmd) == cmd.name \in {"HSET", "HMSET"}

\* A HSET or HMSET that names no field has the wrong number of arguments.
WellFormed(cmd) == IsWriteCommand(cmd) => cmd.args # <<>>

RedisApply(hash, cmd) ==
    IF IsWriteCommand(cmd) /\ WellFormed(cmd) THEN SetFields(hash, cmd.args) ELSE hash

RedisReply(hash, cmd) ==
    IF ~WellFormed(cmd) THEN RedisError("response")
    ELSE CASE cmd.name = "HSET" ->
                ValueInt(Cardinality({i \in 1..Len(cmd.args) :
                                        cmd.args[i][1] \notin DOMAIN hash}))
           [] cmd.name = "HMSET" -> ValueOkay
           [] cmd.name = "HGET" ->
                IF cmd.args[1] \in DOMAIN hash
                THEN ValueData(hash[cmd.args[1]]) ELSE ValueNil
           [] cmd.name = "HGETALL" -> ValueBulk({<<f, hash[f]>> : f \in DOMAIN hash})

(***************************************************************************)
(* Decoding a reply (FromRedisValue).                                      *)
(***************************************************************************)
\* An integer reply `as i8`: its low eight bits, in two's complement.
AsI8(n) == ((n - I8_MIN) % (I8_MAX - I8_MIN + 1)) + I8_MIN

\* redis::from_redis_value::<i8>
I8FromRedisValue(v) ==
    CASE v.t = "Int" -> [ok |-> TRUE, v |-> AsI8(v.val)]
      [] v.t = "Data" -> ParseI8(v.val)
      [] OTHER -> [ok |-> FALSE]

\* impl FromRedisValue for IpStatus
IpStatusFromRedisValue(v) ==
    LET val == I8FromRedisValue(v)
    IN  IF val.ok THEN [ok |-> TRUE, v |-> from_i8(val.v)] ELSE [ok |-> FALSE]

\* FromRedisValue for Vec<(String, i8)>: every item decodes, or the whole fails.
ListFromRedisValue(v) ==
    CASE v.t = "Nil" -> [ok |-> TRUE, v |-> {}]
      [] v.t = "Bulk" ->
            IF \A item \in v.val : ParseI8(item[2]).ok
            THEN [ok |-> TRUE, v |-> {<<item[1], ParseI8(item[2]).v>> : item \in v.val}]
            ELSE [ok |-> FALSE]
      [] OTHER -> [ok |-> FALSE]

\* Some command of the call was executed (and answered without an error).
Executed(rs) == \E i \in 1..Len(rs) : ~IsError(rs[i])

\* What query_async hands back: the first error among the replies, if any.
QueryFailed(rs) == \E i \in 1..Len(rs) : IsError(rs[i])

(***************************************************************************)
(* What each operation returns for the replies it got.                     *)
(***************************************************************************)
WriteResultSwallowed(rs) == Ok(Unit)

\* `.await?` then Ok(()): insert_ip_status and bulk_insert_ip_status.
WriteResult(rs) == IF QueryFailed(rs) THEN Err("StorageError") ELSE Ok(Unit)

ReadResultPropagating(rs) ==
    IF QueryFailed(rs) \/ ~IpStatusFromRedisValue(rs[1]).ok
    THEN Err("StorageError")
    ELSE Ok(IpStatusFromRedisValue(rs[1]).v)

\* `.await.unwrap_or(IpStatus::None)`
ReadResult(rs) ==
    IF QueryFailed(rs) \/ ~IpStatusFromRedisValue(rs[1]).ok
    THEN Ok("None")
    ELSE Ok(IpStatusFromRedisValue(rs[1]).v)

\* `.await.unwrap_or_default()`
ReadListResult(rs) ==
    IF QueryFailed(rs) \/ ~ListFromRedisValue(rs[1]).ok
    THEN Ok({})
    ELSE Ok(ListFromRedisValue(rs[1]).v)

(***************************************************************************)
(* sign.rs: text helpers.                                                  *)
(***************************************************************************)
UpperChars == "ABCDEFGHIJKLMNOPQRSTUVWXYZ"
LowerChars == "abcdefghijklmnopqrstuvwxyz"
HexDigits == "0123456789abcdef"

HexRadix == 16

LowerOf == [c \in CharsOf(UpperChars) |-> CharAt(LowerChars, PlaceIn(UpperChars, c))]
UpperOf == [c \in CharsOf(LowerChars) |-> CharAt(UpperChars, PlaceIn(LowerChars, c))]

to_ascii_lowercase(c) == IF c \in DOMAIN LowerOf THEN LowerOf[c] ELSE c

to_ascii_uppercase(c) == IF c \in DOMAIN UpperOf THEN UpperOf[c] ELSE c

\* The characters of one byte in UTF-8, U+0001 to U+007F.
AsciiChars ==
    {"\t", "\n", "\f", "\r", "\"", "\\"} \cup CharsOf(
        " !#$%&'()*+,-./0123456789:;<=>?@ABCDE" \o
        "FGHIJKLMNOPQRSTUVWXYZ[]^_abcdefghijklmnopqrstuvwxyz{|}~")

\* The characters of two bytes in UTF-8, U+0080 to U+07FF, and the two halves of
\* each character beyond U+FFFF, which has four.
TwoByteChars ==
    CharsOf(
        " ¡¢£¤¥¦§¨©ª«¬­®¯°±²³´µ¶·¸¹º»¼½¾¿" \o
        "ÀÁÂÃÄÅÆÇÈÉÊËÌÍÎÏÐÑÒÓÔÕÖ×ØÙÚÛÜÝÞßàáâãäåæçèéêëìíîïðñòóôõö÷øùúûüýþÿ" \o
        "ƀƁƂƃƄƅƆƇƈƉƊƋƌƍƎƏƐƑƒƓƔƕƖƗƘƙƚƛƜƝƞƟƠơƢƣƤƥƦƧƨƩƪƫƬƭƮƯưƱƲƳƴƵƶƷƸƹƺƻƼƽƾƿ" \o
        "ǀǁǂǃǄǅǆǇǈǉǊǋǌǍǎǏǐǑǒǓǔǕǖǗǘǙǚǛǜǝǞǟǠǡǢǣǤǥǦǧǨǩǪǫǬǭǮǯǰǱǲǳǴǵǶǷǸǹǺǻǼǽǾǿ" \o
        "ʀʁʂʃʄʅʆʇʈʉʊʋʌʍʎʏʐʑʒʓʔʕʖʗʘʙʚʛʜʝʞʟʠʡʢʣʤʥʦʧʨʩʪʫʬʭʮʯʰʱʲʳʴʵʶʷʸʹʺʻʼʽʾʿ" \o
        "ˀˁ˂˃˄˅ˆˇˈˉˊˋˌˍˎˏːˑ˒˓˔˕˖˗˘˙˚˛˜˝˞˟ˠˡˢˣˤ˥˦˧˨˩˪˫ˬ˭ˮ˯˰˱˲˳˴˵˶˷˸˹˺˻˼˽˾˿" \o
        "΀΁΂΃΄΅Ά·ΈΉΊ΋Ό΍ΎΏΐΑΒΓΔΕΖΗΘΙΚΛΜΝΞΟΠΡ΢ΣΤΥΦΧΨΩΪΫάέήίΰαβγδεζηθικλμνξο" \o
        "πρςστυφχψωϊϋόύώϏϐϑϒϓϔϕϖϗϘϙϚϛϜϝϞϟϠϡϢϣϤϥϦϧϨϩϪϫϬϭϮϯϰϱϲϳϴϵ϶ϷϸϹϺϻϼϽϾϿ" \o
        "Ҁҁ҂҃҄҅҆҇҈҉ҊҋҌҍҎҏҐґҒғҔҕҖҗҘҙҚқҜҝҞҟҠҡҢңҤҥҦҧҨҩҪҫҬҭҮүҰұҲҳҴҵҶҷҸҹҺһҼҽҾҿ" \o
        "ӀӁӂӃӄӅӆӇӈӉӊӋӌӍӎӏӐӑӒӓӔӕӖӗӘәӚӛӜӝӞӟӠӡӢӣӤӥӦӧӨөӪӫӬӭӮӯӰӱӲӳӴӵӶӷӸӹӺӻӼӽӾӿ" \o
        "րցւփքօֆևֈ։֊֋֌֍֎֏֐ְֱֲֳִֵֶַָֹֺֻּֽ֑֖֛֢֣֤֥֦֧֪֚֭֮֒֓֔֕֗֘֙֜֝֞֟֠֡֨֩֫֬֯־ֿ" \o
        "׀ׁׂ׃ׅׄ׆ׇ׈׉׊׋׌׍׎׏אבגדהוזחטיךכלםמןנסעףפץצקרשת׫׬׭׮ׯװױײ׳״׵׶׷׸׹׺׻׼׽׾׿" \o
        "ڀځڂڃڄڅچڇڈډڊڋڌڍڎڏڐڑڒړڔڕږڗژڙښڛڜڝڞڟڠڡڢڣڤڥڦڧڨکڪګڬڭڮگڰڱڲڳڴڵڶڷڸڹںڻڼڽھڿ" \o
        "ۀہۂۃۄۅۆۇۈۉۊۋیۍێۏېۑےۓ۔ەۖۗۘۙۚۛۜ۝۞ۣ۟۠ۡۢۤۥۦۧۨ۩۪ۭ۫۬ۮۯ۰۱۲۳۴۵۶۷۸۹ۺۻۼ۽۾ۿ" \o
        "ހށނރބޅކއވމފދތލގޏސޑޒޓޔޕޖޗޘޙޚޛޜޝޞޟޠޡޢޣޤޥަާިީުޫެޭޮޯްޱ޲޳޴޵޶޷޸޹޺޻޼޽޾޿" \o
        "߀߁߂߃߄߅߆߇߈߉ߊߋߌߍߎߏߐߑߒߓߔߕߖߗߘߙߚߛߜߝߞߟߠߡߢߣߤߥߦߧߨߩߪ߲߫߬߭߮߯߰߱߳ߴߵ߶߷߸߹ߺ߻߼߽߾߿" \o
        "𰂀𰒁𰢂𰲃𱂄𱒅𱢆𱲇𲂈𲒉𲢊𲲋𳂌𳒍𳢎𳲏𴂐𴒑𴢒𴲓𵂔𵒕𵢖𵲗𶂘𶒙𶢚𶲛𷂜𷒝𷢞𷲟" \o
        "𸂠𸒡𸢢𸲣𹂤𹒥𹢦𹲧𺂨𺒩𺢪𺲫𻂬𻒭𻢮𻲯𼂰𼒱𼢲𼲳𽂴𽒵𽢶𽲷𾂸𾒹𾢺𾲻𿂼𿒽𿢾𿲿" \o
        "񀃀񀓁񀣂񀳃񁃄񁓅񁣆񁳇񂃈񂓉񂣊񂳋񃃌񃓍񃣎񃳏񄃐񄓑񄣒񄳓񅃔񅓕񅣖񅳗񆃘񆓙񆣚񆳛񇃜񇓝񇣞񇳟" \o
        "񈃠񈓡񈣢񈳣񉃤񉓥񉣦񉳧񊃨񊓩񊣪񊳫񋃬񋓭񋣮񋳯񌃰񌓱񌣲񌳳񍃴񍓵񍣶񍳷񎃸񎓹񎣺񎳻񏃼񏓽񏣾񏳿" \o
        "񰆀񰖁񰦂񰶃񱆄񱖅񱦆񱶇񲆈񲖉񲦊񲶋񳆌񳖍񳦎񳶏񴆐񴖑񴦒񴶓񵆔񵖕񵦖񵶗񶆘񶖙񶦚񶶛񷆜񷖝񷦞񷶟" \o
        "񸆠񸖡񸦢񸶣񹆤񹖥񹦦񹶧񺆨񺖩񺦪񺶫񻆬񻖭񻦮񻶯񼆰񼖱񼦲񼶳񽆴񽖵񽦶񽶷񾆸񾖹񾦺񾶻񿆼񿖽񿦾񿶿" \o
        "򀇀򀗁򀧂򀷃򁇄򁗅򁧆򁷇򂇈򂗉򂧊򂷋򃇌򃗍򃧎򃷏򄇐򄗑򄧒򄷓򅇔򅗕򅧖򅷗򆇘򆗙򆧚򆷛򇇜򇗝򇧞򇷟" \o
        "򈇠򈗡򈧢򈷣򉇤򉗥򉧦򉷧򊇨򊗩򊧪򊷫򋇬򋗭򋧮򋷯򌇰򌗱򌧲򌷳򍇴򍗵򍧶򍷷򎇸򎗹򎧺򎷻򏇼򏗽򏧾򏷿" \o
        "򰊀򰚁򰪂򰺃򱊄򱚅򱪆򱺇򲊈򲚉򲪊򲺋򳊌򳚍򳪎򳺏򴊐򴚑򴪒򴺓򵊔򵚕򵪖򵺗򶊘򶚙򶪚򶺛򷊜򷚝򷪞򷺟" \o
        "򸊠򸚡򸪢򸺣򹊤򹚥򹪦򹺧򺊨򺚩򺪪򺺫򻊬򻚭򻪮򻺯򼊰򼚱򼪲򼺳򽊴򽚵򽪶򽺷򾊸򾚹򾪺򾺻򿊼򿚽򿪾򿺿" \o
        "󀋀󀛁󀫂󀻃󁋄󁛅󁫆󁻇󂋈󂛉󂫊󂻋󃋌󃛍󃫎󃻏󄋐󄛑󄫒󄻓󅋔󅛕󅫖󅻗󆋘󆛙󆫚󆻛󇋜󇛝󇫞󇻟" \o
        "󈋠󈛡󈫢󈻣󉋤󉛥󉫦󉻧󊋨󊛩󊫪󊻫󋋬󋛭󋫮󋻯󌋰󌛱󌫲󌻳󍋴󍛵󍫶󍻷󎋸󎛹󎫺󎻻󏋼󏛽󏫾󏻿" \o
        "󰎀󰞁󰮂󰾃󱎄󱞅󱮆󱾇󲎈󲞉󲮊󲾋󳎌󳞍󳮎󳾏󴎐󴞑󴮒󴾓󵎔󵞕󵮖󵾗󶎘󶞙󶮚󶾛󷎜󷞝󷮞󷾟" \o
        "󸎠󸞡󸮢󸾣󹎤󹞥󹮦󹾧󺎨󺞩󺮪󺾫󻎬󻞭󻮮󻾯󼎰󼞱󼮲󼾳󽎴󽞵󽮶󽾷󾎸󾞹󾮺󾾻󿎼󿞽󿮾󿾿" \o
        "􀏀􀟁􀯂􀿃􁏄􁟅􁯆􁿇􂏈􂟉􂯊􂿋􃏌􃟍􃯎􃿏􄏐􄟑􄯒􄿓􅏔􅟕􅯖􅿗􆏘􆟙􆯚􆿛􇏜􇟝􇯞􇿟" \o
        "􈏠􈟡􈯢􈿣􉏤􉟥􉯦􉿧􊏨􊟩􊯪􊿫􋏬􋟭􋯮􋿯􌏰􌟱􌯲􌿳􍏴􍟵􍯶􍿷􎏸􎟹􎯺􎿻􏏼􏟽􏯾􏿿")

\* char::len_utf8
Utf8Width(c) ==
    IF c \in AsciiChars THEN 1 ELSE IF c \in TwoByteChars THEN 2 ELSE 3

\* str::len: the length of s in bytes.
RECURSIVE Utf8Len(_)
Utf8Len(s) ==
    IF s = "" THEN 0 ELSE Utf8Width(CharAt(s, 1)) + Utf8Len(SubSeq(s, 2, Len(s)))

\* char::to_ascii_lowercase and char::to_ascii_uppercase on the characters of
\* ASCII text.
AsciiLowercase == [c \in AsciiChars |-> to_ascii_lowercase(c)]
AsciiUppercase == [c \in AsciiChars |-> to_ascii_uppercase(c)]

\* str::to_lowercase on ASCII text, which it lowers character by character as
\* to_ascii_lowercase does. The addresses of the model are ASCII text, and
\* verify_message lowers an address only after Address::from_str accepted it,
\* which refuses every character beyond ASCII. On text with any other
\* character the operator has no value.
to_lowercase(s) ==
    LET RECURSIVE range(_, _)
        range(from, to) ==
            IF from > to THEN ""
            ELSE IF from = to THEN AsciiLowercase[CharAt(s, from)]
            ELSE LET mid == (from + to) \div 2
                 IN  range(from, mid) \o range(mid + 1, to)
    IN  range(1, Len(s))

starts_with(s, p) == Len(s) >= Len(p) /\ SubSeq(s, 1, Len(p)) = p

HexValues == [c \in CharsOf(HexDigits) |-> PlaceIn(HexDigits, c) - 1]

IsHexDigit(c) == to_ascii_lowercase(c) \in DOMAIN HexValues

HexVal(c) == HexValues[to_ascii_lowercase(c)]

AllHex(s) == \A i \in 1..Len(s) : IsHexDigit(CharAt(s, i))

\* Byte i (from 0) of a byte array written as hex text.
ByteAt(hex, i) == HexRadix * HexVal(CharAt(hex, 2 * i + 1)) + HexVal(CharAt(hex, 2 * i + 2))

\* byte & (1 << k) != 0
BitSet(byte, k) == (byte \div (2 ^ k)) % 2 = 1

\* a < b, for two byte arrays of one length written as lowercase hex text.
HexLess(a, b) ==
    \E i \in 1..Len(a) :
        /\ SubSeq(a, 1, i - 1) = SubSeq(b, 1, i - 1)
        /\ HexVal(CharAt(a, i)) < HexVal(CharAt(b, i))

(***************************************************************************)
(* The primitives sign.rs calls, tabulated on the inputs the model reaches *)
(* (values of keccak256 and of secp256k1 ECDSA with RFC 6979 nonces).      *)
(* Text that keccak256 hashes is written with \x19 and \n spelled out.     *)
(***************************************************************************)
Keccak256(bytes) ==
    CASE bytes = "" ->
            "c5d2460186f7233c927e7db2dcc703c0e500b653ca82273b7bfad8045d85a470"
      [] bytes = "7E5F4552091A69125D5dfcb7B8C2659029395Bdf" ->
            "d3ea4d158595db6bfef98ac10f4ccde0cadc9b28922262af2381320549c7cd69"
      [] bytes = "7E5F4552091A69125d5DfCb7b8C2659029395Bdf" ->
            "cf7b74f758f5fb7f0826d80c567db69ed9a598c858fa1be2a31fac1634536979"
      [] bytes = "7E5F4552091a69125D5dFCb7b8c2659029395BDF" ->
            "a977e868463f02d305715ad3eb990c1ce858108a41b39a181b07974617ed3424"
      [] bytes = "7E5f4552091A69125d5dfCB7B8C2659029395bDF" ->
            "0a1cdee21c086b7bc991227af5f1ec631872ef355f369a0f48786b4989aab8d2"
      [] bytes = "7e5F4552091a69125D5DFCB7b8c2659029395BdF" ->
            "39cfbaa80242cd3e49fd3f54a96fbfbe42ed17c710038a51a48db3ab2b58cb28"
      [] bytes = "7e5f4552091a69125d5dfcb7b8c2659029395bdf" ->
            "a8aaec6aceafa450816b295770adcd144ce18d630d6ce74288aa4f1569eda4ca"
      [] bytes = "BAB36286672FBDC7B250804BF6D14BE0DF69FA29" ->
            "b7a39bb93c48980363cd27845f03b139f39665511a4ea2989ec823109ad9f0fb"
      [] bytes = "BAB36286672FbDC7B250804Bf6d14bE0DF69Fa29 " ->
            "086aa3ae28710137346624409d37f0008a265440bfc2248960848241382cc93e"
      [] bytes = "BAB36286672fBDc7B250804Bf6D14BE0Df69Fa2" ->
            "32b417b9aedb0dc4e67b78c57f575dc4fccb85bb61716282a46247a4c9494f98"
      [] bytes = "BAb36286672FBDc7B250804bF6d14BE0Df69Fa29" ->
            "d5d4a62b60fd5638d5a2ca65e5ce12806be794c820d2ea308d9633664f22bab8"
      [] bytes = "BAb36286672FBdC7B250804BF6d14Be0df69fa2" ->
            "a9ab205fa3559a53fc98966c4ace1d83b31ed5df37d493635e575c94a9af5bf2"
      [] bytes = "BAb36286672FBdC7B250804bF6D14be0DF69FA29 " ->
            "2785c0abdc91ca80282b0ca7499366d57b035dc822ce2db4094b6db5433dfc8a"
      [] bytes = "BAb36286672FbDC7B250804BF6d14bE0df69fa2" ->
            "b4bb2639dd1a8e67e8f5578074c3ea5018be1f5ebd0aeec8752a434cc4402637"
      [] bytes = "BAb36286672FbDC7b250804bf6d14Be0dF69fa29" ->
            "51bd8f1bc29d3cb03bbb575d1582d7d7d6b5f0ef948ae2bf7ed64c6b686cf4ba"
      [] bytes = "BAb36286672fBdC7B250804bF6D14be0df69FA2g" ->
            "f85f56df052728596b4f50a3350ec9566a1d7842062f82f7032bf56e09e97512"
      [] bytes = "BAb36286672fbDC7b250804bf6D14bE0dF69fa2g" ->
            "ea1c999764040e3e59a1647409ba47c41223233d17448d005a9167cba350f778"
      [] bytes = "BAb36286672fbDc7b250804bf6D14bE0df69fa2G" ->
            "10c1f17ce634f1af1f70c556476bfa1c135aadfe7597e77a5da6553769e5db2a"
      [] bytes = "BAb36286672fbDc7b250804bf6d14Be0dF69fA2g" ->
            "5a3a768121d8a17e04f44c88a8b2002e56a80b01deb4864e9c75a2a3e2874e96"
      [] bytes = "BaB36286672FBDc7B250804bf6D14Be0dF69fA2" ->
            "08e0505c4b145af257d048f3e4f876a980a39e6ee237dead1dac6210a1c13963"
      [] bytes = "BaB36286672FBDc7b250804bf6d14be0Df69fa29" ->
            "c95bec02c39d68f138c961503c12bb313832335dc344cbccd94f434cb97e2c19"
      [] bytes = "BaB36286672Fbdc7B250804BF6d14BE0df69FA29" ->
            "09c09add76cc76b90df375b245f190a0adaa4996539fedb79548ba4c83004aa2"
      [] bytes = "BaB36286672Fbdc7B250804bF6D14bE0dF69Fa29" ->
            "f28ff9fb32df6545d86ee2498f569e84731cc9cf74dac8400f7769ed79297b0f"
      [] bytes = "BaB36286672fbDc7b250804Bf6D14bE0Df69Fa2" ->
            "e477983a809d714af6f91cfd930564075022ebe646f005521267e4bf77940275"
      [] bytes = "Bab36286672Fbdc7B250804BF6d14be0df69FA2" ->
            "7dab1e5995857b5fa295ca528d50c4af28c1f0d1970a03ab5d19b2345a415d19"
      [] bytes = "bAB36286672FBDC7B250804BF6D14BE0DF69Fa2g" ->
            "bf4dc00626d748b349bae39324ef44df1d730682799d6344d9112284b10a82b9"
      [] bytes = "bAB36286672FbdC7b250804bf6D14bE0DF69fA29" ->
            "3cd3d342934972ec07cd0729330e18a35583d307caf8ad0d94bcc3a3725994de"
      [] bytes = "bAB36286672fBdC7b250804bf6D14BE0dF69FA29 " ->
            "2f18c1f825d9fc6d0036ee4b53523a37914da1078b01ee12c42f6c339f86c969"
      [] bytes = "bAB36286672fbDC7b250804bf6d14be0DF69fA2G" ->
            "a95482567833e7e280a2b167f4aeb32c73748bd6aedc1a1ec90ae2b89174efee"
      [] bytes = "bAB36286672fbDc7B250804bF6d14bE0dF69Fa2" ->
            "9e3db5a7a65ca0d2d098199f851eb96561a74481907395e287617c33adf62fb8"
      [] bytes = "bAB36286672fbdc7B250804bf6D14Be0dF69fa2" ->
            "7f258e1d2665155ca092e0a15570192b5cc652c3adfdb5af7c662961e3e6632b"
      [] bytes = "bAB36286672fbdc7B250804bf6D14Be0dF69fa29" ->
            "8d57c803de6ba85b9a4bd054d110cdbf9090c5896087e34a35977cd0818d927a"
      [] bytes = "bAB36286672fbdc7B250804bf6D14Be0dF69fa29                         " ->
            "f416db85650718d607432931ed9451e9c4298607eeaf7bf7afc83e62db754c13"
      [] bytes = "bAB36286672fbdc7B250804bf6D14Be0dF69fa2g" ->
            "3da48b8b52cd9f94f2f6c57ea9a67bf5f825b5d331fcf84786067e18d549f157"
      [] bytes = "bAb36286672FBDc7b250804Bf6d14Be0Df69Fa29 " ->
            "ff5cef29736bf1aeb9d98f66d9b19267ecb4de34f72b3982de01bd8755604204"
      [] bytes = "bAb36286672FBdc7b250804BF6D14be0df69fA2g" ->
            "bf475e4d87fa433c298ca09517f8211695762ed09b588c7e77866e7fe616986f"
      [] bytes = "bAb36286672FbDc7B250804BF6d14be0DF69fa2G" ->
            "1da13e14cd020d925a1aa4472a09f426e8385c0b478dc98344b55722e878fca4"
      [] bytes = "bAb36286672fbdc7B250804bf6d14Be0dF69fa2" ->
            "ef655e81359a5fbf8ca38b1b856f308172fd2095f4cd515ef916e50f508b873d"
      [] bytes = "baB36286672FbDC7b250804Bf6D14bE0Df69Fa29" ->
            "55fff70943e2e43b77883690da486459a12979cf568c17a8bba97cbe6ff0af98"
      [] bytes = "baB36286672fBDC7b250804bf6D14bE0dF69fA29 " ->
            "aaa98f1a8d9e7884c809d5eb0733d2bc8d52d7604afd6fc964fb8bffd74ab885"
      [] bytes = "bab36286672fbdc7b250804bf6d14be0df69fa2" ->
            "c3e962ec1f404d407af0bbac2aaa558df217b4c515f863ea6cf62e0e59844b27"
      [] bytes = "bab36286672fbdc7b250804bf6d14be0df69fa29" ->
            "4a9793d74af22105d017c1f041b67b114ee2757958f97b61bf96452dbfe44ef6"
      [] bytes = "bab36286672fbdc7b250804bf6d14be0df69fa29 " ->
            "7faf9eacd3f185ee2e7605644dc89efa4e3ffb6982a91f48244b67e247f16af3"
      [] bytes = "bab36286672fbdc7b250804bf6d14be0df69fa29                         " ->
            "6636607d318c797834e068b590e3c6e423f47948f164da5daa71f5e5cc445194"
      [] bytes = "bab36286672fbdc7b250804bf6d14be0df69fa2g" ->
            "080fb79b793b4a54ebd782adac1396138f85315e5374bbe127b348bcd0fc9e04"
      [] bytes = "\\x19Ethereum Signed Message:\\n252026-10-29 12:00:00 +0000" ->
            "d5ce72ebafa73d433ae291c5dea3cb38e299d16a4aff6b6e56bc4ec8741283c7"
      [] bytes = "\\x19Ethereum Signed Message:\\n252026-10-29 14:00:59 +0200" ->
            "f4fc0a541768673a2b4f7dbae5e1e80b6ef6b6efbad33f63fa0b300eace8352a"
      [] bytes = "\\x19Ethereum Signed Message:\\n252026-10-29 12:0:59 +00:00" ->
            "eaee91156fdd4ed1118bf78d7b524a1b972f220de85d3b31a416fe791ad2da7f"
      [] bytes = "\\x19Ethereum Signed Message:\\n252026-10-29\f12:00:00\f+0000" ->
            "6ade078529c6dbaf396979b635995dbfe140a684ab8dca70d62250e8a0b1ce0a"
      [] bytes = "\\x19Ethereum Signed Message:\\n252026-10-29 12:00:60 +0000" ->
            "5a3357000690d9bea526a8bac3b91cd16ac9adb79d8eb4090a9c86bed24b9e00"
      [] bytes = "\\x19Ethereum Signed Message:\\n28+262143-10-29 12:00:00 +0000" ->
            "4e643c1c26ffe5bc1e35f2c80799c42c62356bc00e835be44a4b0edfcc0507bc"
      [] bytes = "\\x19Ethereum Signed Message:\\n192026-10-29 12:00:00" ->
            "ca11a63b4740787edd294e292c789693f9796fd0d3ffcfa0a5244e0f49aea10c"
      [] bytes = "\\x19Ethereum Signed Message:\\n252026-02-30 12:00:00 +0000" ->
            "17ade5d9d43fbb3d04d39d1c410bdb1746281331f74a3cffe75d01b41458dd7c"

SignTable(secret, message) ==
    CASE secret = "0000000000000000000000000000000000000000000000000000000000000001"
           /\ message = "17ade5d9d43fbb3d04d39d1c410bdb1746281331f74a3cffe75d01b41458dd7c" ->
            "6d782d2b5c0d8b820b1f3969eeaf62907169280c024c40e74d10f4d4b1bc504c3298eff091d4b95309e1d0ba526ee4b7d5cfcab3e5b60256de3613510057614e00"
      [] secret = "0000000000000000000000000000000000000000000000000000000000000001"
           /\ message = "4e643c1c26ffe5bc1e35f2c80799c42c62356bc00e835be44a4b0edfcc0507bc" ->
            "1a7016989c32ee28669fb6761a9783f14c69f86eaa62fdcc691533c16ae813822031299bb0363f9cb57320c5c4c894a404d237f7cf6a4a14c1b75021b122844001"
      [] secret = "0000000000000000000000000000000000000000000000000000000000000001"
           /\ message = "5a3357000690d9bea526a8bac3b91cd16ac9adb79d8eb4090a9c86bed24b9e00" ->
            "5ea7acfaa06bca8b264303f9e7b3302235a40e00cfc8cfae29845184537926be16f76448dc2165bceb79b3f8bb3ad82f6477e186c6d7ccf12b7d85baf4c9d08e01"
      [] secret = "0000000000000000000000000000000000000000000000000000000000000001"
           /\ message = "6ade078529c6dbaf396979b635995dbfe140a684ab8dca70d62250e8a0b1ce0a" ->
            "4a8c905038579d49b25344dcd77618540ca2cf5acd0f9f50cf9fdb6fd1f557de57f405a851dd4119ee4b45569b6d1afaacfa878871f5f37b2c6f9223a77b579800"
      [] secret = "0000000000000000000000000000000000000000000000000000000000000001"
           /\ message = "ca11a63b4740787edd294e292c789693f9796fd0d3ffcfa0a5244e0f49aea10c" ->
            "b9c6bcaf6a8f6c098ab067266f6e8082242f199c39d185bbd9d9900a35abbeda42102b34d271825fca271c4620cf7770e19c912ca387a6773bd78cfcec87747a01"
      [] secret = "0000000000000000000000000000000000000000000000000000000000000001"
           /\ message = "d5ce72ebafa73d433ae291c5dea3cb38e299d16a4aff6b6e56bc4ec8741283c7" ->
            "1e3cf628e1eb65a518bf313338f4b6935d9d3e3646522a310255efb7918d801c1717682855c5caadd37e82c7cb80a254cd675cb741a07286b9a6d2d1b6b388c901"
      [] secret = "0000000000000000000000000000000000000000000000000000000000000001"
           /\ message = "eaee91156fdd4ed1118bf78d7b524a1b972f220de85d3b31a416fe791ad2da7f" ->
            "187c537f8734e6c887dbe7a5380d9c81a4bc63892275b1891b9ddc8a34a3c23d226ee0b9c4b1ec7a65f93105ebc7f26e4b5ed37562a345ff8365dc8a63e54f9300"
      [] secret = "0000000000000000000000000000000000000000000000000000000000000001"
           /\ message = "f4fc0a541768673a2b4f7dbae5e1e80b6ef6b6efbad33f63fa0b300eace8352a" ->
            "2d96154322c8c7c979d4e91cc221dee331a49afe3820228a6e2a3137df252fb842d744512c22c641229e9514b53e3de2474c08b97a1923e764341f3c6d43805d00"
      [] secret = "809465b17d0a4ddb3e4c69e8f23c2cabad868f51f8bed5c765ad1d6516c3306f"
           /\ message = "17ade5d9d43fbb3d04d39d1c410bdb1746281331f74a3cffe75d01b41458dd7c" ->
            "68c3cdb830f9a0715f127b561b73a19b910988c543e35a036797319ea3259063635c83f6367c3b1bdc6964ea2dd533ddea45825dd3103612f54dbdbee69e82ff01"
      [] secret = "809465b17d0a4ddb3e4c69e8f23c2cabad868f51f8bed5c765ad1d6516c3306f"
           /\ message = "4e643c1c26ffe5bc1e35f2c80799c42c62356bc00e835be44a4b0edfcc0507bc" ->
            "438701a8263f3ac530d7a5cf7573273561e502767b9d5d44c59f026f0db372c6697a2686f27945039804f95fa1227a95507d8f2bd4141888b544a8a2527eb52e00"
      [] secret = "809465b17d0a4ddb3e4c69e8f23c2cabad868f51f8bed5c765ad1d6516c3306f"
           /\ message = "5a3357000690d9bea526a8bac3b91cd16ac9adb79d8eb4090a9c86bed24b9e00" ->
            "23a899d074355a7fe5899f9ee23e936f6c86351fbe5dc52dc0621500b78e5c621d6faea45c9fdea18aefbf39619a9e6a07a23b6a4a6d388ec82ae5d05e6d057200"
      [] secret = "809465b17d0a4ddb3e4c69e8f23c2cabad868f51f8bed5c765ad1d6516c3306f"
           /\ message = "6ade078529c6dbaf396979b635995dbfe140a684ab8dca70d62250e8a0b1ce0a" ->
            "476e5732df92993d51bddc48c729c94a51b94d7f661a1a4ee341d9038a433e6658a1c0ff939a34ba6ef3f01fee95fab6702dc90bad5949e070cb6ecd6494980200"
      [] secret = "809465b17d0a4ddb3e4c69e8f23c2cabad868f51f8bed5c765ad1d6516c3306f"
           /\ message = "ca11a63b4740787edd294e292c789693f9796fd0d3ffcfa0a5244e0f49aea10c" ->
            "fd192daaf45b1cd2fe17f03aacbfc72fd930aeeae8bb6e2e58a0788022ca08375b9ef9f5b734a75045e63c52f4a0fac142ddef2460125fbbd42588f01b9fa6f301"
      [] secret = "809465b17d0a4ddb3e4c69e8f23c2cabad868f51f8bed5c765ad1d6516c3306f"
           /\ message = "d5ce72ebafa73d433ae291c5dea3cb38e299d16a4aff6b6e56bc4ec8741283c7" ->
            "c400b88d32c02bdfe4eea44f820733ac3235f6e869416861dca315a6d5c93d742159df8c7bed0f3377051f9ebd59da54a5ab9d7fb9e918d26bf182116410e9ba00"
      [] secret = "809465b17d0a4ddb3e4c69e8f23c2cabad868f51f8bed5c765ad1d6516c3306f"
           /\ message = "eaee91156fdd4ed1118bf78d7b524a1b972f220de85d3b31a416fe791ad2da7f" ->
            "8ed612e9f4453087f85a30e366cfcbbc77976fce02247818e792e4a263a9ff65450bf8072c716fb6bf192d2c7a7a29158e6a0a782f3a5245fb26529a37884f6c01"
      [] secret = "809465b17d0a4ddb3e4c69e8f23c2cabad868f51f8bed5c765ad1d6516c3306f"
           /\ message = "f4fc0a541768673a2b4f7dbae5e1e80b6ef6b6efbad33f63fa0b300eace8352a" ->
            "493d87a8499f3e5fb90e0a5b7d7b92e7e4b66007b927a98f47d440c146307fb63801121db20e67ae2908259749fa9ac5a5b0a7ccbebd4f2f8dfdfc4d755549d200"

RecoverTable(signature, message) ==
    CASE signature = "0000000000000000000000000000000000000000000000000000000000000000000000000000000000000000000000000000000000000000000000000000000000"
           /\ message = "d5ce72ebafa73d433ae291c5dea3cb38e299d16a4aff6b6e56bc4ec8741283c7" ->
            [ok |-> FALSE]
      [] signature = "0000000000000000000000000000000000000000000000000000000000000000000000000000000000000000000000000000000000000000000000000000000000"
           /\ message = "f4fc0a541768673a2b4f7dbae5e1e80b6ef6b6efbad33f63fa0b300eace8352a" ->
            [ok |-> FALSE]
      [] signature = "0000000000000000000000000000000000000000000000000000000000000000000000000000000000000000000000000000000000000000000000000000000000"
           /\ message = "eaee91156fdd4ed1118bf78d7b524a1b972f220de85d3b31a416fe791ad2da7f" ->
            [ok |-> FALSE]
      [] signature = "0000000000000000000000000000000000000000000000000000000000000000000000000000000000000000000000000000000000000000000000000000000000"
           /\ message = "6ade078529c6dbaf396979b635995dbfe140a684ab8dca70d62250e8a0b1ce0a" ->
            [ok |-> FALSE]
      [] signature = "0000000000000000000000000000000000000000000000000000000000000000000000000000000000000000000000000000000000000000000000000000000000"
           /\ message = "5a3357000690d9bea526a8bac3b91cd16ac9adb79d8eb4090a9c86bed24b9e00" ->
            [ok |-> FALSE]
      [] signature = "187c537f8734e6c887dbe7a5380d9c81a4bc63892275b1891b9ddc8a34a3c23d226ee0b9c4b1ec7a65f93105ebc7f26e4b5ed37562a345ff8365dc8a63e54f9300"
           /\ message = "d5ce72ebafa73d433ae291c5dea3cb38e299d16a4aff6b6e56bc4ec8741283c7" ->
            [ok |-> TRUE, v |-> "ebdfd9ae81e7be740a40ede61251d1037c5ac160"]
      [] signature = "187c537f8734e6c887dbe7a5380d9c81a4bc63892275b1891b9ddc8a34a3c23d226ee0b9c4b1ec7a65f93105ebc7f26e4b5ed37562a345ff8365dc8a63e54f9300"
           /\ message = "f4fc0a541768673a2b4f7dbae5e1e80b6ef6b6efbad33f63fa0b300eace8352a" ->
            [ok |-> TRUE, v |-> "e3e867f75217344fc14db4013a2bf38e40e26f92"]
      [] signature = "187c537f8734e6c887dbe7a5380d9c81a4bc63892275b1891b9ddc8a34a3c23d226ee0b9c4b1ec7a65f93105ebc7f26e4b5ed37562a345ff8365dc8a63e54f9300"
           /\ message = "eaee91156fdd4ed1118bf78d7b524a1b972f220de85d3b31a416fe791ad2da7f" ->
            [ok |-> TRUE, v |-> "7e5f4552091a69125d5dfcb7b8c2659029395bdf"]
      [] signature = "187c537f8734e6c887dbe7a5380d9c81a4bc63892275b1891b9ddc8a34a3c23d226ee0b9c4b1ec7a65f93105ebc7f26e4b5ed37562a345ff8365dc8a63e54f9300"
           /\ message = "6ade078529c6dbaf396979b635995dbfe140a684ab8dca70d62250e8a0b1ce0a" ->
            [ok |-> TRUE, v |-> "7522a2244e2186c6f4f0f3f99e959c9ab00fc410"]
      [] signature = "187c537f8734e6c887dbe7a5380d9c81a4bc63892275b1891b9ddc8a34a3c23d226ee0b9c4b1ec7a65f93105ebc7f26e4b5ed37562a345ff8365dc8a63e54f9300"
           /\ message = "5a3357000690d9bea526a8bac3b91cd16ac9adb79d8eb4090a9c86bed24b9e00" ->
            [ok |-> TRUE, v |-> "b0a04396e71ce1535cfc4465ba24bc4b9f4bfff2"]
      [] signature = "1a7016989c32ee28669fb6761a9783f14c69f86eaa62fdcc691533c16ae813822031299bb0363f9cb57320c5c4c894a404d237f7cf6a4a14c1b75021b122844001"
           /\ message = "d5ce72ebafa73d433ae291c5dea3cb38e299d16a4aff6b6e56bc4ec8741283c7" ->
            [ok |-> TRUE, v |-> "5a6040eba7c20d00859afa6d02a984e90c92992f"]
      [] signature = "1a7016989c32ee28669fb6761a9783f14c69f86eaa62fdcc691533c16ae813822031299bb0363f9cb57320c5c4c894a404d237f7cf6a4a14c1b75021b122844001"
           /\ message = "f4fc0a541768673a2b4f7dbae5e1e80b6ef6b6efbad33f63fa0b300eace8352a" ->
            [ok |-> TRUE, v |-> "5d1349836f9c9e676c0c0ffc7d3658aa723c5371"]
      [] signature = "1a7016989c32ee28669fb6761a9783f14c69f86eaa62fdcc691533c16ae813822031299bb0363f9cb57320c5c4c894a404d237f7cf6a4a14c1b75021b122844001"
           /\ message = "eaee91156fdd4ed1118bf78d7b524a1b972f220de85d3b31a416fe791ad2da7f" ->
            [ok |-> TRUE, v |-> "39936091457e298e4f9b57a6433692a2db4510d0"]
      [] signature = "1a7016989c32ee28669fb6761a9783f14c69f86eaa62fdcc691533c16ae813822031299bb0363f9cb57320c5c4c894a404d237f7cf6a4a14c1b75021b122844001"
           /\ message = "6ade078529c6dbaf396979b635995dbfe140a684ab8dca70d62250e8a0b1ce0a" ->
            [ok |-> TRUE, v |-> "5d6d3b7431bb5d90cbd8d1bf0b9ff2ccf087ac1a"]
      [] signature = "1a7016989c32ee28669fb6761a9783f14c69f86eaa62fdcc691533c16ae813822031299bb0363f9cb57320c5c4c894a404d237f7cf6a4a14c1b75021b122844001"
           /\ message = "5a3357000690d9bea526a8bac3b91cd16ac9adb79d8eb4090a9c86bed24b9e00" ->
            [ok |-> TRUE, v |-> "bd6fe6b163b5d3b8bef1c8e57605fd5565b4dde9"]
      [] signature = "1e3cf628e1eb65a518bf313338f4b6935d9d3e3646522a310255efb7918d801c1717682855c5caadd37e82c7cb80a254cd675cb741a07286b9a6d2d1b6b388c901"
           /\ message = "d5ce72ebafa73d433ae291c5dea3cb38e299d16a4aff6b6e56bc4ec8741283c7" ->
            [ok |-> TRUE, v |-> "7e5f4552091a69125d5dfcb7b8c2659029395bdf"]
      [] signature = "1e3cf628e1eb65a518bf313338f4b6935d9d3e3646522a310255efb7918d801c1717682855c5caadd37e82c7cb80a254cd675cb741a07286b9a6d2d1b6b388c901"
           /\ message = "f4fc0a541768673a2b4f7dbae5e1e80b6ef6b6efbad33f63fa0b300eace8352a" ->
            [ok |-> TRUE, v |-> "e97621dd2ef20cfe5a2200abc9f61fa5c41cc9eb"]
      [] signature = "1e3cf628e1eb65a518bf313338f4b6935d9d3e3646522a310255efb7918d801c1717682855c5caadd37e82c7cb80a254cd675cb741a07286b9a6d2d1b6b388c901"
           /\ message = "eaee91156fdd4ed1118bf78d7b524a1b972f220de85d3b31a416fe791ad2da7f" ->
            [ok |-> TRUE, v |-> "4784e31f55caab1284ed5dc61ca02fbde1a0b682"]
      [] signature = "1e3cf628e1eb65a518bf313338f4b6935d9d3e3646522a310255efb7918d801c1717682855c5caadd37e82c7cb80a254cd675cb741a07286b9a6d2d1b6b388c901"
           /\ message = "6ade078529c6dbaf396979b635995dbfe140a684ab8dca70d62250e8a0b1ce0a" ->
            [ok |-> TRUE, v |-> "0a3beccfe1cc65953eecaeeecf08addd85100a43"]
      [] signature = "1e3cf628e1eb65a518bf313338f4b6935d9d3e3646522a310255efb7918d801c1717682855c5caadd37e82c7cb80a254cd675cb741a07286b9a6d2d1b6b388c901"
           /\ message = "5a3357000690d9bea526a8bac3b91cd16ac9adb79d8eb4090a9c86bed24b9e00" ->
            [ok |-> TRUE, v |-> "2f4a54d653fab19d6447eaa7f411b8538ebea9b2"]
      [] signature = "23a899d074355a7fe5899f9ee23e936f6c86351fbe5dc52dc0621500b78e5c621d6faea45c9fdea18aefbf39619a9e6a07a23b6a4a6d388ec82ae5d05e6d057200"
           /\ message = "d5ce72ebafa73d433ae291c5dea3cb38e299d16a4aff6b6e56bc4ec8741283c7" ->
            [ok |-> TRUE, v |-> "d074d63122be29afb10d0dd100fff4bb15ddf6e8"]
      [] signature = "23a899d074355a7fe5899f9ee23e936f6c86351fbe5dc52dc0621500b78e5c621d6faea45c9fdea18aefbf39619a9e6a07a23b6a4a6d388ec82ae5d05e6d057200"
           /\ message = "f4fc0a541768673a2b4f7dbae5e1e80b6ef6b6efbad33f63fa0b300eace8352a" ->
            [ok |-> TRUE, v |-> "c403de8fa3546ea9405ff67b0a48e4fb647713f3"]
      [] signature = "23a899d074355a7fe5899f9ee23e936f6c86351fbe5dc52dc0621500b78e5c621d6faea45c9fdea18aefbf39619a9e6a07a23b6a4a6d388ec82ae5d05e6d057200"
           /\ message = "eaee91156fdd4ed1118bf78d7b524a1b972f220de85d3b31a416fe791ad2da7f" ->
            [ok |-> TRUE, v |-> "5dfd8dd642015b80bcfc6f299f074aaac5c134d1"]
      [] signature = "23a899d074355a7fe5899f9ee23e936f6c86351fbe5dc52dc0621500b78e5c621d6faea45c9fdea18aefbf39619a9e6a07a23b6a4a6d388ec82ae5d05e6d057200"
           /\ message = "6ade078529c6dbaf396979b635995dbfe140a684ab8dca70d62250e8a0b1ce0a" ->
            [ok |-> TRUE, v |-> "91ce01d2d9cece7bd79651d73b1496247b0a8dae"]
      [] signature = "23a899d074355a7fe5899f9ee23e936f6c86351fbe5dc52dc0621500b78e5c621d6faea45c9fdea18aefbf39619a9e6a07a23b6a4a6d388ec82ae5d05e6d057200"
           /\ message = "5a3357000690d9bea526a8bac3b91cd16ac9adb79d8eb4090a9c86bed24b9e00" ->
            [ok |-> TRUE, v |-> "bab36286672fbdc7b250804bf6d14be0df69fa29"]
      [] signature = "2d96154322c8c7c979d4e91cc221dee331a49afe3820228a6e2a3137df252fb842d744512c22c641229e9514b53e3de2474c08b97a1923e764341f3c6d43805d00"
           /\ message = "d5ce72ebafa73d433ae291c5dea3cb38e299d16a4aff6b6e56bc4ec8741283c7" ->
            [ok |-> TRUE, v |-> "294b1b5cc47c9097ca8dd85c45027be05c89bfdb"]
      [] signature = "2d96154322c8c7c979d4e91cc221dee331a49afe3820228a6e2a3137df252fb842d744512c22c641229e9514b53e3de2474c08b97a1923e764341f3c6d43805d00"
           /\ message = "f4fc0a541768673a2b4f7dbae5e1e80b6ef6b6efbad33f63fa0b300eace8352a" ->
            [ok |-> TRUE, v |-> "7e5f4552091a69125d5dfcb7b8c2659029395bdf"]
      [] signature = "2d96154322c8c7c979d4e91cc221dee331a49afe3820228a6e2a3137df252fb842d744512c22c641229e9514b53e3de2474c08b97a1923e764341f3c6d43805d00"
           /\ message = "eaee91156fdd4ed1118bf78d7b524a1b972f220de85d3b31a416fe791ad2da7f" ->
            [ok |-> TRUE, v |-> "bea13e5b4e603db3ba3932ef38c6064c4a38bc3e"]
      [] signature = "2d96154322c8c7c979d4e91cc221dee331a49afe3820228a6e2a3137df252fb842d744512c22c641229e9514b53e3de2474c08b97a1923e764341f3c6d43805d00"
           /\ message = "6ade078529c6dbaf396979b635995dbfe140a684ab8dca70d62250e8a0b1ce0a" ->
            [ok |-> TRUE, v |-> "ffd618bc171e80aad4878b89983a6675e2a553a0"]
      [] signature = "2d96154322c8c7c979d4e91cc221dee331a49afe3820228a6e2a3137df252fb842d744512c22c641229e9514b53e3de2474c08b97a1923e764341f3c6d43805d00"
           /\ message = "5a3357000690d9bea526a8bac3b91cd16ac9adb79d8eb4090a9c86bed24b9e00" ->
            [ok |-> TRUE, v |-> "a09c6b0e6607c94152970ffcf30b2c7a5fbb4dd8"]
      [] signature = "438701a8263f3ac530d7a5cf7573273561e502767b9d5d44c59f026f0db372c6697a2686f27945039804f95fa1227a95507d8f2bd4141888b544a8a2527eb52e00"
           /\ message = "d5ce72ebafa73d433ae291c5dea3cb38e299d16a4aff6b6e56bc4ec8741283c7" ->
            [ok |-> TRUE, v |-> "2bab7033c112e5bac5a3315ce4f90de9b587d14c"]
      [] signature = "438701a8263f3ac530d7a5cf7573273561e502767b9d5d44c59f026f0db372c6697a2686f27945039804f95fa1227a95507d8f2bd4141888b544a8a2527eb52e00"
           /\ message = "f4fc0a541768673a2b4f7dbae5e1e80b6ef6b6efbad33f63fa0b300eace8352a" ->
            [ok |-> TRUE, v |-> "840bad667d86b7c0db4f094d0aa2155496af2da6"]
      [] signature = "438701a8263f3ac530d7a5cf7573273561e502767b9d5d44c59f026f0db372c6697a2686f27945039804f95fa1227a95507d8f2bd4141888b544a8a2527eb52e00"
           /\ message = "eaee91156fdd4ed1118bf78d7b524a1b972f220de85d3b31a416fe791ad2da7f" ->
            [ok |-> TRUE, v |-> "27718e71f9d3cfa8a3984f20d542ce72bf6300c4"]
      [] signature = "438701a8263f3ac530d7a5cf7573273561e502767b9d5d44c59f026f0db372c6697a2686f27945039804f95fa1227a95507d8f2bd4141888b544a8a2527eb52e00"
           /\ message = "6ade078529c6dbaf396979b635995dbfe140a684ab8dca70d62250e8a0b1ce0a" ->
            [ok |-> TRUE, v |-> "4dec3f735318813451f843bf68d3ce90a5682f2f"]
      [] signature = "438701a8263f3ac530d7a5cf7573273561e502767b9d5d44c59f026f0db372c6697a2686f27945039804f95fa1227a95507d8f2bd4141888b544a8a2527eb52e00"
           /\ message = "5a3357000690d9bea526a8bac3b91cd16ac9adb79d8eb4090a9c86bed24b9e00" ->
            [ok |-> TRUE, v |-> "5d86863c1973e632147f231247562dd9f7ef89d8"]
      [] signature = "476e5732df92993d51bddc48c729c94a51b94d7f661a1a4ee341d9038a433e6658a1c0ff939a34ba6ef3f01fee95fab6702dc90bad5949e070cb6ecd6494980200"
           /\ message = "d5ce72ebafa73d433ae291c5dea3cb38e299d16a4aff6b6e56bc4ec8741283c7" ->
            [ok |-> TRUE, v |-> "bd55aac63e6c699e8c304639b362d15d7ef4ed57"]
      [] signature = "476e5732df92993d51bddc48c729c94a51b94d7f661a1a4ee341d9038a433e6658a1c0ff939a34ba6ef3f01fee95fab6702dc90bad5949e070cb6ecd6494980200"
           /\ message = "f4fc0a541768673a2b4f7dbae5e1e80b6ef6b6efbad33f63fa0b300eace8352a" ->
            [ok |-> TRUE, v |-> "61b149a1170ffa250ed5b1c42475bab07ad93287"]
      [] signature = "476e5732df92993d51bddc48c729c94a51b94d7f661a1a4ee341d9038a433e6658a1c0ff939a34ba6ef3f01fee95fab6702dc90bad5949e070cb6ecd6494980200"
           /\ message = "eaee91156fdd4ed1118bf78d7b524a1b972f220de85d3b31a416fe791ad2da7f" ->
            [ok |-> TRUE, v |-> "6c046e172a9b17490eac48a61e93d45fb8cb457d"]
      [] signature = "476e5732df92993d51bddc48c729c94a51b94d7f661a1a4ee341d9038a433e6658a1c0ff939a34ba6ef3f01fee95fab6702dc90bad5949e070cb6ecd6494980200"
           /\ message = "6ade078529c6dbaf396979b635995dbfe140a684ab8dca70d62250e8a0b1ce0a" ->
            [ok |-> TRUE, v |-> "bab36286672fbdc7b250804bf6d14be0df69fa29"]
      [] signature = "476e5732df92993d51bddc48c729c94a51b94d7f661a1a4ee341d9038a433e6658a1c0ff939a34ba6ef3f01fee95fab6702dc90bad5949e070cb6ecd6494980200"
           /\ message = "5a3357000690d9bea526a8bac3b91cd16ac9adb79d8eb4090a9c86bed24b9e00" ->
            [ok |-> TRUE, v |-> "e959009e54966d836fdd3ce7ef9bd11c3ec0d2aa"]
      [] signature = "493d87a8499f3e5fb90e0a5b7d7b92e7e4b66007b927a98f47d440c146307fb63801121db20e67ae2908259749fa9ac5a5b0a7ccbebd4f2f8dfdfc4d755549d200"
           /\ message = "d5ce72ebafa73d433ae291c5dea3cb38e299d16a4aff6b6e56bc4ec8741283c7" ->
            [ok |-> TRUE, v |-> "67405ea3d83378d4e641e0453c5b2f1d52deba0b"]
      [] signature = "493d87a8499f3e5fb90e0a5b7d7b92e7e4b66007b927a98f47d440c146307fb63801121db20e67ae2908259749fa9ac5a5b0a7ccbebd4f2f8dfdfc4d755549d200"
           /\ message = "f4fc0a541768673a2b4f7dbae5e1e80b6ef6b6efbad33f63fa0b300eace8352a" ->
            [ok |-> TRUE, v |-> "bab36286672fbdc7b250804bf6d14be0df69fa29"]
      [] signature = "493d87a8499f3e5fb90e0a5b7d7b92e7e4b66007b927a98f47d440c146307fb63801121db20e67ae2908259749fa9ac5a5b0a7ccbebd4f2f8dfdfc4d755549d200"
           /\ message = "eaee91156fdd4ed1118bf78d7b524a1b972f220de85d3b31a416fe791ad2da7f" ->
            [ok |-> TRUE, v |-> "d5a152f785e86659daae55df4fd87b4aebb011c7"]
      [] signature = "493d87a8499f3e5fb90e0a5b7d7b92e7e4b66007b927a98f47d440c146307fb63801121db20e67ae2908259749fa9ac5a5b0a7ccbebd4f2f8dfdfc4d755549d200"
           /\ message = "6ade078529c6dbaf396979b635995dbfe140a684ab8dca70d62250e8a0b1ce0a" ->
            [ok |-> TRUE, v |-> "644c45773103a1dbbcc90314a1a83f1df57f3bcd"]
      [] signature = "493d87a8499f3e5fb90e0a5b7d7b92e7e4b66007b927a98f47d440c146307fb63801121db20e67ae2908259749fa9ac5a5b0a7ccbebd4f2f8dfdfc4d755549d200"
           /\ message = "5a3357000690d9bea526a8bac3b91cd16ac9adb79d8eb4090a9c86bed24b9e00" ->
            [ok |-> TRUE, v |-> "f2a529776743421b3a000a9bc8920b5898f8d1ea"]
      [] signature = "4a8c905038579d49b25344dcd77618540ca2cf5acd0f9f50cf9fdb6fd1f557de57f405a851dd4119ee4b45569b6d1afaacfa878871f5f37b2c6f9223a77b579800"
           /\ message = "d5ce72ebafa73d433ae291c5dea3cb38e299d16a4aff6b6e56bc4ec8741283c7" ->
            [ok |-> TRUE, v |-> "7a05684f327a1039208def395f919312d7771048"]
      [] signature = "4a8c905038579d49b25344dcd77618540ca2cf5acd0f9f50cf9fdb6fd1f557de57f405a851dd4119ee4b45569b6d1afaacfa878871f5f37b2c6f9223a77b579800"
           /\ message = "f4fc0a541768673a2b4f7dbae5e1e80b6ef6b6efbad33f63fa0b300eace8352a" ->
            [ok |-> TRUE, v |-> "083b0980810099e557a558cff3a842d0899f6831"]
      [] signature = "4a8c905038579d49b25344dcd77618540ca2cf5acd0f9f50cf9fdb6fd1f557de57f405a851dd4119ee4b45569b6d1afaacfa878871f5f37b2c6f9223a77b579800"
           /\ message = "eaee91156fdd4ed1118bf78d7b524a1b972f220de85d3b31a416fe791ad2da7f" ->
            [ok |-> TRUE, v |-> "39ed2ca03c435fa3fd8d60ac8103c228612762cf"]
      [] signature = "4a8c905038579d49b25344dcd77618540ca2cf5acd0f9f50cf9fdb6fd1f557de57f405a851dd4119ee4b45569b6d1afaacfa878871f5f37b2c6f9223a77b579800"
           /\ message = "6ade078529c6dbaf396979b635995dbfe140a684ab8dca70d62250e8a0b1ce0a" ->
            [ok |-> TRUE, v |-> "7e5f4552091a69125d5dfcb7b8c2659029395bdf"]
      [] signature = "4a8c905038579d49b25344dcd77618540ca2cf5acd0f9f50cf9fdb6fd1f557de57f405a851dd4119ee4b45569b6d1afaacfa878871f5f37b2c6f9223a77b579800"
           /\ message = "5a3357000690d9bea526a8bac3b91cd16ac9adb79d8eb4090a9c86bed24b9e00" ->
            [ok |-> TRUE, v |-> "ac73375045f02939555202e39333bc8967f4e2c6"]
      [] signature = "5ea7acfaa06bca8b264303f9e7b3302235a40e00cfc8cfae29845184537926be16f76448dc2165bceb79b3f8bb3ad82f6477e186c6d7ccf12b7d85baf4c9d08e01"
           /\ message = "d5ce72ebafa73d433ae291c5dea3cb38e299d16a4aff6b6e56bc4ec8741283c7" ->
            [ok |-> TRUE, v |-> "033100b3177e1b9a8b66fc580f79506f502fee56"]
      [] signature = "5ea7acfaa06bca8b264303f9e7b3302235a40e00cfc8cfae29845184537926be16f76448dc2165bceb79b3f8bb3ad82f6477e186c6d7ccf12b7d85baf4c9d08e01"
           /\ message = "f4fc0a541768673a2b4f7dbae5e1e80b6ef6b6efbad33f63fa0b300eace8352a" ->
            [ok |-> TRUE, v |-> "620b9aca3b88be4b3883694fc117f8d9d0d25787"]
      [] signature = "5ea7acfaa06bca8b264303f9e7b3302235a40e00cfc8cfae29845184537926be16f76448dc2165bceb79b3f8bb3ad82f6477e186c6d7ccf12b7d85baf4c9d08e01"
           /\ message = "eaee91156fdd4ed1118bf78d7b524a1b972f220de85d3b31a416fe791ad2da7f" ->
            [ok |-> TRUE, v |-> "5f18ef3f2f36fd163881109b7dc5b673149c64a5"]
      [] signature = "5ea7acfaa06bca8b264303f9e7b3302235a40e00cfc8cfae29845184537926be16f76448dc2165bceb79b3f8bb3ad82f6477e186c6d7ccf12b7d85baf4c9d08e01"
           /\ message = "6ade078529c6dbaf396979b635995dbfe140a684ab8dca70d62250e8a0b1ce0a" ->
            [ok |-> TRUE, v |-> "2728dec5c6088d53b03e6e51026693924e4f95f6"]
      [] signature = "5ea7acfaa06bca8b264303f9e7b3302235a40e00cfc8cfae29845184537926be16f76448dc2165bceb79b3f8bb3ad82f6477e186c6d7ccf12b7d85baf4c9d08e01"
           /\ message = "5a3357000690d9bea526a8bac3b91cd16ac9adb79d8eb4090a9c86bed24b9e00" ->
            [ok |-> TRUE, v |-> "7e5f4552091a69125d5dfcb7b8c2659029395bdf"]
      [] signature = "68c3cdb830f9a0715f127b561b73a19b910988c543e35a036797319ea3259063635c83f6367c3b1bdc6964ea2dd533ddea45825dd3103612f54dbdbee69e82ff01"
           /\ message = "d5ce72ebafa73d433ae291c5dea3cb38e299d16a4aff6b6e56bc4ec8741283c7" ->
            [ok |-> TRUE, v |-> "69e2af375c758f0dc5684178c30269c5dc3649bc"]
      [] signature = "68c3cdb830f9a0715f127b561b73a19b910988c543e35a036797319ea3259063635c83f6367c3b1bdc6964ea2dd533ddea45825dd3103612f54dbdbee69e82ff01"
           /\ message = "f4fc0a541768673a2b4f7dbae5e1e80b6ef6b6efbad33f63fa0b300eace8352a" ->
            [ok |-> TRUE, v |-> "c98eca8dafe4c3b29f5de7a47fc73982e910c5c2"]
      [] signature = "68c3cdb830f9a0715f127b561b73a19b910988c543e35a036797319ea3259063635c83f6367c3b1bdc6964ea2dd533ddea45825dd3103612f54dbdbee69e82ff01"
           /\ message = "eaee91156fdd4ed1118bf78d7b524a1b972f220de85d3b31a416fe791ad2da7f" ->
            [ok |-> TRUE, v |-> "62b44a8982aa376b2e5085814c2cee7db8535302"]
      [] signature = "68c3cdb830f9a0715f127b561b73a19b910988c543e35a036797319ea3259063635c83f6367c3b1bdc6964ea2dd533ddea45825dd3103612f54dbdbee69e82ff01"
           /\ message = "6ade078529c6dbaf396979b635995dbfe140a684ab8dca70d62250e8a0b1ce0a" ->
            [ok |-> TRUE, v |-> "aad27eb00c63252e316a0237e17d2c0dd5f84982"]
      [] signature = "68c3cdb830f9a0715f127b561b73a19b910988c543e35a036797319ea3259063635c83f6367c3b1bdc6964ea2dd533ddea45825dd3103612f54dbdbee69e82ff01"
           /\ message = "5a3357000690d9bea526a8bac3b91cd16ac9adb79d8eb4090a9c86bed24b9e00" ->
            [ok |-> TRUE, v |-> "7537bdc26260c953e1a92189fdd045186eae69e3"]
      [] signature = "6d782d2b5c0d8b820b1f3969eeaf62907169280c024c40e74d10f4d4b1bc504c3298eff091d4b95309e1d0ba526ee4b7d5cfcab3e5b60256de3613510057614e00"
           /\ message = "d5ce72ebafa73d433ae291c5dea3cb38e299d16a4aff6b6e56bc4ec8741283c7" ->
            [ok |-> TRUE, v |-> "0a210ac2a351eda880fb4e094a73c63b44a07eff"]
      [] signature = "6d782d2b5c0d8b820b1f3969eeaf62907169280c024c40e74d10f4d4b1bc504c3298eff091d4b95309e1d0ba526ee4b7d5cfcab3e5b60256de3613510057614e00"
           /\ message = "f4fc0a541768673a2b4f7dbae5e1e80b6ef6b6efbad33f63fa0b300eace8352a" ->
            [ok |-> TRUE, v |-> "eca0123a0586b8dea6c4bdc175fd018950f6b561"]
      [] signature = "6d782d2b5c0d8b820b1f3969eeaf62907169280c024c40e74d10f4d4b1bc504c3298eff091d4b95309e1d0ba526ee4b7d5cfcab3e5b60256de3613510057614e00"
           /\ message = "eaee91156fdd4ed1118bf78d7b524a1b972f220de85d3b31a416fe791ad2da7f" ->
            [ok |-> TRUE, v |-> "15aee2f3d369d3a4e74cbf2c5c38bbe19242a9db"]
      [] signature = "6d782d2b5c0d8b820b1f3969eeaf62907169280c024c40e74d10f4d4b1bc504c3298eff091d4b95309e1d0ba526ee4b7d5cfcab3e5b60256de3613510057614e00"
           /\ message = "6ade078529c6dbaf396979b635995dbfe140a684ab8dca70d62250e8a0b1ce0a" ->
            [ok |-> TRUE, v |-> "8ebeca0fdd8da60fc2feebe1c95440d549018f98"]
      [] signature = "6d782d2b5c0d8b820b1f3969eeaf62907169280c024c40e74d10f4d4b1bc504c3298eff091d4b95309e1d0ba526ee4b7d5cfcab3e5b60256de3613510057614e00"
           /\ message = "5a3357000690d9bea526a8bac3b91cd16ac9adb79d8eb4090a9c86bed24b9e00" ->
            [ok |-> TRUE, v |-> "2fff94e0621d7c907aac60627818089b7739bd72"]
      [] signature = "8ed612e9f4453087f85a30e366cfcbbc77976fce02247818e792e4a263a9ff65450bf8072c716fb6bf192d2c7a7a29158e6a0a782f3a5245fb26529a37884f6c01"
           /\ message = "d5ce72ebafa73d433ae291c5dea3cb38e299d16a4aff6b6e56bc4ec8741283c7" ->
            [ok |-> TRUE, v |-> "a64572e758d36628038d4ea499923ea180b9c318"]
      [] signature = "8ed612e9f4453087f85a30e366cfcbbc77976fce02247818e792e4a263a9ff65450bf8072c716fb6bf192d2c7a7a29158e6a0a782f3a5245fb26529a37884f6c01"
           /\ message = "f4fc0a541768673a2b4f7dbae5e1e80b6ef6b6efbad33f63fa0b300eace8352a" ->
            [ok |-> TRUE, v |-> "1b8d0548d3377387519aa72e9e2d3732a9086c9e"]
      [] signature = "8ed612e9f4453087f85a30e366cfcbbc77976fce02247818e792e4a263a9ff65450bf8072c716fb6bf192d2c7a7a29158e6a0a782f3a5245fb26529a37884f6c01"
           /\ message = "eaee91156fdd4ed1118bf78d7b524a1b972f220de85d3b31a416fe791ad2da7f" ->
            [ok |-> TRUE, v |-> "bab36286672fbdc7b250804bf6d14be0df69fa29"]
      [] signature = "8ed612e9f4453087f85a30e366cfcbbc77976fce02247818e792e4a263a9ff65450bf8072c716fb6bf192d2c7a7a29158e6a0a782f3a5245fb26529a37884f6c01"
           /\ message = "6ade078529c6dbaf396979b635995dbfe140a684ab8dca70d62250e8a0b1ce0a" ->
            [ok |-> TRUE, v |-> "ae79fea49e9de032e0c5e0eed4b989a22a450dc4"]
      [] signature = "8ed612e9f4453087f85a30e366cfcbbc77976fce02247818e792e4a263a9ff65450bf8072c716fb6bf192d2c7a7a29158e6a0a782f3a5245fb26529a37884f6c01"
           /\ message = "5a3357000690d9bea526a8bac3b91cd16ac9adb79d8eb4090a9c86bed24b9e00" ->
            [ok |-> TRUE, v |-> "6a2aaf15b8ebd84a4948eaf3965dadcdaabcf731"]
      [] signature = "b9c6bcaf6a8f6c098ab067266f6e8082242f199c39d185bbd9d9900a35abbeda42102b34d271825fca271c4620cf7770e19c912ca387a6773bd78cfcec87747a01"
           /\ message = "d5ce72ebafa73d433ae291c5dea3cb38e299d16a4aff6b6e56bc4ec8741283c7" ->
            [ok |-> TRUE, v |-> "6280ec61cb2efb9ddd107d31b4532f3abbd4c3e4"]
      [] signature = "b9c6bcaf6a8f6c098ab067266f6e8082242f199c39d185bbd9d9900a35abbeda42102b34d271825fca271c4620cf7770e19c912ca387a6773bd78cfcec87747a01"
           /\ message = "f4fc0a541768673a2b4f7dbae5e1e80b6ef6b6efbad33f63fa0b300eace8352a" ->
            [ok |-> TRUE, v |-> "eaa28d7d79a8250c95698bd44aa838ce4e0bf203"]
      [] signature = "b9c6bcaf6a8f6c098ab067266f6e8082242f199c39d185bbd9d9900a35abbeda42102b34d271825fca271c4620cf7770e19c912ca387a6773bd78cfcec87747a01"
           /\ message = "eaee91156fdd4ed1118bf78d7b524a1b972f220de85d3b31a416fe791ad2da7f" ->
            [ok |-> TRUE, v |-> "0b121c1e77b6c891f7ad34894a639edb169ddbcb"]
      [] signature = "b9c6bcaf6a8f6c098ab067266f6e8082242f199c39d185bbd9d9900a35abbeda42102b34d271825fca271c4620cf7770e19c912ca387a6773bd78cfcec87747a01"
           /\ message = "6ade078529c6dbaf396979b635995dbfe140a684ab8dca70d62250e8a0b1ce0a" ->
            [ok |-> TRUE, v |-> "671675bb71cbdd78f25a53783a671279783804c9"]
      [] signature = "b9c6bcaf6a8f6c098ab067266f6e8082242f199c39d185bbd9d9900a35abbeda42102b34d271825fca271c4620cf7770e19c912ca387a6773bd78cfcec87747a01"
           /\ message = "5a3357000690d9bea526a8bac3b91cd16ac9adb79d8eb4090a9c86bed24b9e00" ->
            [ok |-> TRUE, v |-> "69189777eacf72abc4fca8ddfea3fbaef05888d2"]
      [] signature = "c400b88d32c02bdfe4eea44f820733ac3235f6e869416861dca315a6d5c93d742159df8c7bed0f3377051f9ebd59da54a5ab9d7fb9e918d26bf182116410e9ba00"
           /\ message = "d5ce72ebafa73d433ae291c5dea3cb38e299d16a4aff6b6e56bc4ec8741283c7" ->
            [ok |-> TRUE, v |-> "bab36286672fbdc7b250804bf6d14be0df69fa29"]
      [] signature = "c400b88d32c02bdfe4eea44f820733ac3235f6e869416861dca315a6d5c93d742159df8c7bed0f3377051f9ebd59da54a5ab9d7fb9e918d26bf182116410e9ba00"
           /\ message = "f4fc0a541768673a2b4f7dbae5e1e80b6ef6b6efbad33f63fa0b300eace8352a" ->
            [ok |-> TRUE, v |-> "fab94785b169afa643af5777d765df3d1b8906cb"]
      [] signature = "c400b88d32c02bdfe4eea44f820733ac3235f6e869416861dca315a6d5c93d742159df8c7bed0f3377051f9ebd59da54a5ab9d7fb9e918d26bf182116410e9ba00"
           /\ message = "eaee91156fdd4ed1118bf78d7b524a1b972f220de85d3b31a416fe791ad2da7f" ->
            [ok |-> TRUE, v |-> "0d4b4ff5023c21ae5cfa4c343c7da6b651878828"]
      [] signature = "c400b88d32c02bdfe4eea44f820733ac3235f6e869416861dca315a6d5c93d742159df8c7bed0f3377051f9ebd59da54a5ab9d7fb9e918d26bf182116410e9ba00"
           /\ message = "6ade078529c6dbaf396979b635995dbfe140a684ab8dca70d62250e8a0b1ce0a" ->
            [ok |-> TRUE, v |-> "0e21083ac85dfe424511208f8ee735a4872ce6ee"]
      [] signature = "c400b88d32c02bdfe4eea44f820733ac3235f6e869416861dca315a6d5c93d742159df8c7bed0f3377051f9ebd59da54a5ab9d7fb9e918d26bf182116410e9ba00"
           /\ message = "5a3357000690d9bea526a8bac3b91cd16ac9adb79d8eb4090a9c86bed24b9e00" ->
            [ok |-> TRUE, v |-> "beee67041ec4835f4cd5d48e6a1fa074ddc62e00"]
      [] signature = "c400b88d32c02bdfe4eea44f820733ac3235f6e869416861dca315a6d5c93d742159df8c7bed0f3377051f9ebd59da54a5ab9d7fb9e918d26bf182116410e9ba01"
           /\ message = "d5ce72ebafa73d433ae291c5dea3cb38e299d16a4aff6b6e56bc4ec8741283c7" ->
            [ok |-> TRUE, v |-> "af425c1d566b443b0f7a9a9178de57da4ad9d316"]
      [] signature = "c400b88d32c02bdfe4eea44f820733ac3235f6e869416861dca315a6d5c93d742159df8c7bed0f3377051f9ebd59da54a5ab9d7fb9e918d26bf182116410e9ba01"
           /\ message = "f4fc0a541768673a2b4f7dbae5e1e80b6ef6b6efbad33f63fa0b300eace8352a" ->
            [ok |-> TRUE, v |-> "1bd88554e3a64e341811a4fe1aa5bdaa2ad1e629"]
      [] signature = "c400b88d32c02bdfe4eea44f820733ac3235f6e869416861dca315a6d5c93d742159df8c7bed0f3377051f9ebd59da54a5ab9d7fb9e918d26bf182116410e9ba01"
           /\ message = "eaee91156fdd4ed1118bf78d7b524a1b972f220de85d3b31a416fe791ad2da7f" ->
            [ok |-> TRUE, v |-> "22d2da8077886fea9138d5caad581aa1013faba1"]
      [] signature = "c400b88d32c02bdfe4eea44f820733ac3235f6e869416861dca315a6d5c93d742159df8c7bed0f3377051f9ebd59da54a5ab9d7fb9e918d26bf182116410e9ba01"
           /\ message = "6ade078529c6dbaf396979b635995dbfe140a684ab8dca70d62250e8a0b1ce0a" ->
            [ok |-> TRUE, v |-> "03a0bdd1c6bd609655c534c85a95a0aefc152a9c"]
      [] signature = "c400b88d32c02bdfe4eea44f820733ac3235f6e869416861dca315a6d5c93d742159df8c7bed0f3377051f9ebd59da54a5ab9d7fb9e918d26bf182116410e9ba01"
           /\ message = "5a3357000690d9bea526a8bac3b91cd16ac9adb79d8eb4090a9c86bed24b9e00" ->
            [ok |-> TRUE, v |-> "887c7e691c2a495ad85629eb94cedb84210e1147"]
      [] signature = "c400b88d32c02bdfe4eea44f820733ac3235f6e869416861dca315a6d5c93d742159df8c7bed0f3377051f9ebd59da54a5ab9d7fb9e918d26bf182116410e9ba1b"
           /\ message = "d5ce72ebafa73d433ae291c5dea3cb38e299d16a4aff6b6e56bc4ec8741283c7" ->
            [ok |-> FALSE]
      [] signature = "c400b88d32c02bdfe4eea44f820733ac3235f6e869416861dca315a6d5c93d742159df8c7bed0f3377051f9ebd59da54a5ab9d7fb9e918d26bf182116410e9ba1b"
           /\ message = "f4fc0a541768673a2b4f7dbae5e1e80b6ef6b6efbad33f63fa0b300eace8352a" ->
            [ok |-> FALSE]
      [] signature = "c400b88d32c02bdfe4eea44f820733ac3235f6e869416861dca315a6d5c93d742159df8c7bed0f3377051f9ebd59da54a5ab9d7fb9e918d26bf182116410e9ba1b"
           /\ message = "eaee91156fdd4ed1118bf78d7b524a1b972f220de85d3b31a416fe791ad2da7f" ->
            [ok |-> FALSE]
      [] signature = "c400b88d32c02bdfe4eea44f820733ac3235f6e869416861dca315a6d5c93d742159df8c7bed0f3377051f9ebd59da54a5ab9d7fb9e918d26bf182116410e9ba1b"
           /\ message = "6ade078529c6dbaf396979b635995dbfe140a684ab8dca70d62250e8a0b1ce0a" ->
            [ok |-> FALSE]
      [] signature = "c400b88d32c02bdfe4eea44f820733ac3235f6e869416861dca315a6d5c93d742159df8c7bed0f3377051f9ebd59da54a5ab9d7fb9e918d26bf182116410e9ba1b"
           /\ message = "5a3357000690d9bea526a8bac3b91cd16ac9adb79d8eb4090a9c86bed24b9e00" ->
            [ok |-> FALSE]
      [] signature = "fd192daaf45b1cd2fe17f03aacbfc72fd930aeeae8bb6e2e58a0788022ca08375b9ef9f5b734a75045e63c52f4a0fac142ddef2460125fbbd42588f01b9fa6f301"
           /\ message = "d5ce72ebafa73d433ae291c5dea3cb38e299d16a4aff6b6e56bc4ec8741283c7" ->
            [ok |-> TRUE, v |-> "a2211f14e04d2ed04a73d9bcc77e58d5f1ae0b51"]
      [] signature = "fd192daaf45b1cd2fe17f03aacbfc72fd930aeeae8bb6e2e58a0788022ca08375b9ef9f5b734a75045e63c52f4a0fac142ddef2460125fbbd42588f01b9fa6f301"
           /\ message = "f4fc0a541768673a2b4f7dbae5e1e80b6ef6b6efbad33f63fa0b300eace8352a" ->
            [ok |-> TRUE, v |-> "d5bd0a1525e31a2f82f7912bf59ad73a2cb467c0"]
      [] signature = "fd192daaf45b1cd2fe17f03aacbfc72fd930aeeae8bb6e2e58a0788022ca08375b9ef9f5b734a75045e63c52f4a0fac142ddef2460125fbbd42588f01b9fa6f301"
           /\ message = "eaee91156fdd4ed1118bf78d7b524a1b972f220de85d3b31a416fe791ad2da7f" ->
            [ok |-> TRUE, v |-> "879aa319b2d849feccf9f7358fb19761780ece68"]
      [] signature = "fd192daaf45b1cd2fe17f03aacbfc72fd930aeeae8bb6e2e58a0788022ca08375b9ef9f5b734a75045e63c52f4a0fac142ddef2460125fbbd42588f01b9fa6f301"
           /\ message = "6ade078529c6dbaf396979b635995dbfe140a684ab8dca70d62250e8a0b1ce0a" ->
            [ok |-> TRUE, v |-> "6c71e082fba107245fc3705b69df811899cee16a"]
      [] signature = "fd192daaf45b1cd2fe17f03aacbfc72fd930aeeae8bb6e2e58a0788022ca08375b9ef9f5b734a75045e63c52f4a0fac142ddef2460125fbbd42588f01b9fa6f301"
           /\ message = "5a3357000690d9bea526a8bac3b91cd16ac9adb79d8eb4090a9c86bed24b9e00" ->
            [ok |-> TRUE, v |-> "4a9685c557c4de0e820f816609167c29f7521c26"]

SECP256K1_ORDER == "fffffffffffffffffffffffffffffffebaaedce6af48a03bbfd25e8cd0364141"
ZERO_SECRET == "0000000000000000000000000000000000000000000000000000000000000000"

\* ethkey::sign: fails on a secret that is no scalar of the curve's group.
ethkey_sign(secret, message) ==
    IF secret # ZERO_SECRET /\ HexLess(secret, SECP256K1_ORDER)
    THEN Ok(SignTable(secret, message))
    ELSE Err("InvalidSecret")

\* ethkey::verify_address: recover the signer's public key, compare its address.
verify_address(address, signature, message) ==
    LET recovered == RecoverTable(signature, message)
    IN  IF recovered.ok THEN Ok(address = recovered.v) ELSE Err("CryptoError")

(***************************************************************************)
(* sign.rs: the date of a message.                                         *)
(***************************************************************************)
\* VALIDATION_DATE_FORMAT = "%Y-%m-%d %H:%M:%S %z", as the items chrono reads it by.
VALIDATION_DATE_FORMAT ==
    <<"%Y", "-", "%m", "-", "%d", " ", "%H", ":", "%M", ":", "%S", " ", "%z">>

\* char::is_whitespace: the characters of Unicode's White_Space that a string of
\* this module can hold: tab, line feed, vertical tab, form feed, carriage
\* return, space, U+0085, U+00A0, U+1680.
Whitespace == {"\t", "\n", "", "\f", "\r", " ", "", " ", " "}

\* str::trim_start from index i: the index of the first character that is no blank.
RECURSIVE SkipWhitespace(_, _)
SkipWhitespace(s, i) ==
    IF i <= Len(s) /\ CharAt(s, i) \in Whitespace THEN SkipWhitespace(s, i + 1) ELSE i

\* scan::colon_or_space
RECURSIVE SkipColonOrSpace(_, _)
SkipColonOrSpace(s, i) ==
    IF i <= Len(s) /\ CharAt(s, i) \in Whitespace \cup {":"}
    THEN SkipColonOrSpace(s, i + 1) ELSE i

\* How many digits, max at most, s has from index i on.
RECURSIVE DigitRun(_, _, _)
DigitRun(s, i, max) ==
    IF max > 0 /\ i <= Len(s) /\ IsDigit(CharAt(s, i))
    THEN 1 + DigitRun(s, i + 1, max - 1) ELSE 0

Number(s, from, to) == DecimalValue(SubSeq(s, from, to))

\* NaiveDate::MIN.year() and NaiveDate::MAX.year(): the years a date can have.
MIN_YEAR == -262143
MAX_YEAR == 262142

\* The width of a numeric item, and the field it sets.
NumericItems ==
    "%Y" :> [width |-> 4, field |-> "year"] @@
    "%m" :> [width |-> 2, field |-> "month"] @@
    "%d" :> [width |-> 2, field |-> "day"] @@
    "%H" :> [width |-> 2, field |-> "hour"] @@
    "%M" :> [width |-> 2, field |-> "minute"] @@
    "%S" :> [width |-> 2, field |-> "second"]

Failed(p) == [p EXCEPT !.ok = FALSE]

\* A numeric item: blanks are skipped, then one digit up to the item's width are
\* read; a year with a sign before it may have any number of digits, and one of
\* more digits than MAX_YEAR has, leading zeros aside, is out of range.
ParseNumeric(p, s, item) ==
    LET i      == SkipWhitespace(s, p.next)
        signed == item = "%Y" /\ i <= Len(s) /\ CharAt(s, i) \in {"+", "-"}
        from   == IF signed THEN i + 1 ELSE i
        n      == DigitRun(s, from, IF signed THEN Len(s) ELSE NumericItems[item].width)
        v      == Number(s, from, from + n - 1)
        long   == Len(DropLeadingZeros(SubSeq(s, from, from + n - 1)))
                    > Len(NatToString(MAX_YEAR))
    IN  IF n = 0 \/ long THEN Failed(p)
        ELSE [p EXCEPT !.next = from + n,
                       ![NumericItems[item].field] =
                            IF signed /\ CharAt(s, i) = "-" THEN -v ELSE v]

\* %z: a sign, two digits of hours, colons or blanks, two digits of minutes.
ParseTimezoneOffset(p, s) ==
    LET i == SkipWhitespace(s, p.next)
        j == SkipColonOrSpace(s, i + 3)
    IN  IF ~(i <= Len(s) /\ CharAt(s, i) \in {"+", "-"}) THEN Failed(p)
        ELSE IF DigitRun(s, i + 1, 2) # 2 THEN Failed(p)
        ELSE IF DigitRun(s, j, 2) # 2 THEN Failed(p)
        ELSE IF Number(s, j, j + 1) > 59 THEN Failed(p)
        ELSE [p EXCEPT !.next = j + 2,
                       !.offset = (IF CharAt(s, i) = "-" THEN -1 ELSE 1)
                                    * (Number(s, i + 1, i + 2) * 3600 + Number(s, j, j + 1) * 60)]

ParseLiteral(p, s, item) ==
    IF p.next <= Len(s) /\ CharAt(s, p.next) = item
    THEN [p EXCEPT !.next = p.next + 1] ELSE Failed(p)

ParseItem(p, s, item) ==
    IF ~p.ok THEN p
    ELSE IF item \in DOMAIN NumericItems THEN ParseNumeric(p, s, item)
    ELSE IF item = "%z" THEN ParseTimezoneOffset(p, s)
    ELSE IF item = " " THEN [p EXCEPT !.next = SkipWhitespace(s, p.next)]
    ELSE ParseLiteral(p, s, item)

\* format::parse: the first k items of the format read from the start of s.
RECURSIVE ParseItems(_, _, _)
ParseItems(s, items, k) ==
    IF k = 0
    THEN [ok |-> TRUE, next |-> 1, offset |-> 0, year |-> 0, month |-> 0, day |-> 0,
          hour |-> 0, minute |-> 0, second |-> 0]
    ELSE ParseItem(ParseItems(s, items, k - 1), s, items[k])

DaysInMonth(y, m) ==
    CASE m \in {4, 6, 9, 11} -> 30
      [] m = 2 -> IF (y % 4 = 0 /\ y % 100 # 0) \/ y % 400 = 0 THEN 29 ELSE 28
      [] OTHER -> 31

\* Days from 1970-01-01 to the civil date y-m-d.
DaysFromCivil(y, m, d) ==
    LET yy  == IF m <= 2 THEN y - 1 ELSE y
        era == yy \div 400
        yoe == yy - era * 400
        mp  == IF m > 2 THEN m - 3 ELSE m + 9
        doy == (153 * mp + 2) \div 5 + d - 1
        doe == yoe * 365 + yoe \div 4 - yoe \div 100 + doy
    IN  era * 146097 + doe - 719468

SECONDS_PER_DAY == 86400
NANOS_PER_SECOND == 1000000000

\* An instant in UTC, as a NaiveDateTime holds a date and a time: the day since
\* 1970-01-01, the second of that day and the nanoseconds of that second. The
\* nanoseconds of a leap second go on from NANOS_PER_SECOND.
Instant(days, seconds, nanos) ==
    [day |-> days + seconds \div SECONDS_PER_DAY, sec |-> seconds % SECONDS_PER_DAY,
     nano |-> nanos]

\* a > b, of two instants
After(a, b) ==
    \/ a.day > b.day
    \/ a.day = b.day /\ a.sec > b.sec
    \/ a.day = b.day /\ a.sec = b.sec /\ a.nano > b.nano

\* DateTime::parse_from_str(date_message, VALIDATION_DATE_FORMAT): the instant
\* the text names. The second 60 is a leap second: the second 59 with
\* NANOS_PER_SECOND nanoseconds. The year, and the day of the instant in UTC, are
\* within what a NaiveDate can hold.
ParseDate(s) ==
    LET p == ParseItems(s, VALIDATION_DATE_FORMAT, Len(VALIDATION_DATE_FORMAT))
        t == Instant(DaysFromCivil(p.year, p.month, p.day),
                     p.hour * 3600 + p.minute * 60
                     + (IF p.second = 60 THEN 59 ELSE p.second) - p.offset,
                     IF p.second = 60 THEN NANOS_PER_SECOND ELSE 0)
    IN  IF /\ p.ok
           /\ p.next = Len(s) + 1
           /\ p.year >= MIN_YEAR /\ p.year <= MAX_YEAR
           /\ p.month >= 1 /\ p.month <= 12
           /\ p.day >= 1 /\ p.day <= DaysInMonth(p.year, p.month)
           /\ p.hour <= 23 /\ p.minute <= 59 /\ p.second <= 60
           /\ p.offset > -SECONDS_PER_DAY /\ p.offset < SECONDS_PER_DAY
           /\ t.day >= DaysFromCivil(MIN_YEAR, 1, 1)
           /\ t.day <= DaysFromCivil(MAX_YEAR, 12, 31)
        THEN Ok(t)
        ELSE Err("DateFormatError")

(***************************************************************************)
(* sign.rs: SignOps for SignedMessage.                                     *)
(***************************************************************************)
MESSAGE_PREFIX == "\\x19Ethereum Signed Message:\\n"

sign_message_hash(date_message) ==
    Keccak256(MESSAGE_PREFIX \o NatToString(Utf8Len(date_message)) \o date_message)

\* One turn of the loop of checksum_address, for the character c at index i
\* (from 0) of addr: the character pushed, or the panic of hash[i / 2] when a
\* character that is no digit stands at an index past the hash's last byte.
ChecksumChar(addr, hash, i) ==
    LET c == CharAt(addr, i + 1)
    IN  IF IsDigit(c) THEN Ok(c)
        ELSE IF i \div 2 >= Len(hash) \div 2 THEN Panic
        ELSE IF BitSet(ByteAt(hash, i \div 2), 7 - 4 * (i % 2))
             THEN Ok(AsciiUppercase[c])
             ELSE Ok(AsciiLowercase[c])

\* The loop of checksum_address over the characters at indices from..to - 1 of
\* ASCII text (addr.chars().enumerate() gives a character of ASCII text the
\* index Len and SubSeq give it): what it pushes, or its first panic.
RECURSIVE ChecksumChars(_, _, _, _)
ChecksumChars(addr, hash, from, to) ==
    IF from >= to THEN Ok("")
    ELSE IF to = from + 1 THEN ChecksumChar(addr, hash, from)
    ELSE LET mid == (from + to) \div 2
             left == ChecksumChars(addr, hash, from, mid)
             right == ChecksumChars(addr, hash, mid, to)
         IN  IF ~left.ok THEN left
             ELSE IF ~right.ok THEN right
             ELSE Ok(left.v \o right.v)

checksum_address_hashing_as_given(address) ==
    LET addr == IF starts_with(to_lowercase(address), "0x")
                THEN SubSeq(address, 3, Len(address)) ELSE address
        pushed == ChecksumChars(to_lowercase(addr), Keccak256(addr), 0, Len(addr))
    IN  IF ~pushed.ok THEN pushed ELSE Ok("0x" \o pushed.v)

\* checksum_address: the String it returns, or its panic.
checksum_address(address) ==
    LET lowered == to_lowercase(address)
        addr == IF starts_with(lowered, "0x") THEN SubSeq(lowered, 3, Len(lowered)) ELSE lowered
        pushed == ChecksumChars(addr, Keccak256(addr), 0, Len(addr))
    IN  IF ~pushed.ok THEN pushed ELSE Ok("0x" \o pushed.v)

\* self.address == self.checksum_address()
is_valid_checksum_addr(address) ==
    LET checksummed == checksum_address(address)
    IN  IF ~checksummed.ok THEN checksummed ELSE Ok(address = checksummed.v)

\* The size in bytes of an Address (H160) and of a Signature.
ADDRESS_LEN == 20
SIGNATURE_LEN == 65

\* s without the characters rustc_hex's decoder passes over: b' ', b'\r',
\* b'\n' and b'\t'.
RECURSIVE WithoutBlanks(_)
WithoutBlanks(s) ==
    IF Len(s) = 0 THEN ""
    ELSE IF Len(s) = 1 THEN (IF s \in {" ", "\r", "\n", "\t"} THEN "" ELSE s)
    ELSE LET mid == Len(s) \div 2
         IN  WithoutBlanks(SubSeq(s, 1, mid)) \o WithoutBlanks(SubSeq(s, mid + 1, Len(s)))

\* rustc_hex::FromHex::from_hex, which Address::from_str and Signature::from_str
\* decode with: blanks are passed over, every other character is a hex digit
\* of either case, and the digits come in pairs.
from_hex(s) ==
    LET digits == WithoutBlanks(s)
    IN  IF ~AllHex(digits) THEN Err("InvalidHexCharacter")
        ELSE IF Len(digits) % 2 # 0 THEN Err("InvalidHexLength")
        ELSE Ok(to_lowercase(digits))

\* Address::from_str: hex of 20 bytes.
AddressFromStr(s) ==
    LET bytes == from_hex(s)
    IN  IF bytes.ok /\ Len(bytes.v) = 2 * ADDRESS_LEN THEN bytes
        ELSE Err("AddressFormatError")

addr_from_str(address) ==
    IF ~starts_with(address, "0x") THEN Err("AddressFormatError")
    ELSE AddressFromStr(SubSeq(address, 3, Len(address)))

valid_addr_from_str(address) ==
    LET addr == addr_from_str(address)
    IN  IF ~addr.ok THEN addr
        ELSE LET valid == is_valid_checksum_addr(address)
             IN  IF ~valid.ok THEN valid
                 ELSE IF ~valid.v THEN Err("ChecksumMismatchError")
                 ELSE addr

\* Signature::from_str: hex of 65 bytes.
SignatureFromStr(s) ==
    LET bytes == from_hex(s)
    IN  IF bytes.ok /\ Len(bytes.v) = 2 * SIGNATURE_LEN THEN bytes
        ELSE Err("SignatureFormatError")

SignaturePrefixKept(signature) == signature

\* self.signature.strip_prefix("0x").unwrap_or(&self.signature)
StripSignaturePrefix(signature) ==
    IF starts_with(signature, "0x") THEN SubSeq(signature, 3, Len(signature)) ELSE signature

ExpiredAtDeadline(now, valid_until) == ~After(valid_until, now)

\* now > valid_until
Expired(now, valid_until) == After(now, valid_until)

\* verify_message, with Utc::now() as an input.
verify_message(c, now) ==
    LET valid_until == ParseDate(c.date_message)
    IN  IF ~valid_until.ok THEN valid_until
        ELSE IF Expired(now, valid_until.v) THEN Ok(FALSE)
        ELSE LET message_hash == sign_message_hash(c.date_message)
                 address == valid_addr_from_str(c.address)
             IN  IF ~address.ok THEN address
                 ELSE LET signature == SignatureFromStr(StripSignaturePrefix(c.signature))
                      IN  IF ~signature.ok THEN signature
                          ELSE verify_address(address.v, signature.v, message_hash)

(***************************************************************************)
(* Bounds and input sets.                                                  *)
(***************************************************************************)
MaxBatch == 2

\* SpecConc: how many calls the sessions issue between them.
MaxCalls == 3

IPs == {"10.0.0.1", "10.0.0.2"}

\* i8 payload codes: Trusted and one out of the enumeration's range
\* (insert_ip_status adds None and Blocked).
Codes == {0, 42}

\* What the hash may hold when the component connects: entries outlive it, and
\* other tools may have written fields that are no i8.
StoredValues == {"-1", "1", "abc", "300"}

Records == [ip : IPs, status : Codes]

Payloads == UNION {[1..n -> Records] : n \in 0..MaxBatch}

Sessions == {"s1", "s2"}

Hashes == UNION {[D -> StoredValues] : D \in SUBSET IPs}

\* SpecSign: how far from a claim's deadline the clock is read, in seconds.
TimeSkew == 1

\* The key of the repository's test, the key 1, and a secret that is no key.
TEST_SECRET == "809465b17d0a4ddb3e4c69e8f23c2cabad868f51f8bed5c765ad1d6516c3306f"
ONE_SECRET == "0000000000000000000000000000000000000000000000000000000000000001"

\* The test's address: as checksummed, in one case, without the prefix, cut short,
\* with a character that is no hex digit; the address of the key 1; no text;
\* the test's address followed by one blank, in the case its checksum encoding
\* has (the blank is hashed with it), and followed by 25 blanks, the last of
\* them at index 64.
AddressInputs ==
    { "0xbAB36286672fbdc7B250804bf6D14Be0dF69fa29",
      "0xbab36286672fbdc7b250804bf6d14be0df69fa29",
      "0xBAB36286672FBDC7B250804BF6D14BE0DF69FA29",
      "bAB36286672fbdc7B250804bf6D14Be0dF69fa29",
      "bab36286672fbdc7b250804bf6d14be0df69fa29",
      "0x7E5F4552091A69125d5DfCb7b8C2659029395Bdf",
      "0xbAB36286672fbdc7B250804bf6D14Be0dF69fa2",
      "0xbAB36286672fbdc7B250804bf6D14Be0dF69fa2g",
      "",
      "0xbAB36286672fBdC7b250804bf6D14BE0dF69FA29 ",
      "0xbAB36286672fbdc7B250804bf6D14Be0dF69fa29                         " }

\* Two deadlines 59 seconds apart, written in two time zones; the later one
\* with a field of one digit and a colon in its zone; the first with form feeds
\* for its blanks; a deadline in the leap second that follows the later one; a
\* year no date can have; a date with no zone; a day that does not exist.
DateInputs ==
    { "2026-10-29 12:00:00 +0000",
      "2026-10-29 14:00:59 +0200",
      "2026-10-29 12:0:59 +00:00",
      "2026-10-29\f12:00:00\f+0000",
      "2026-10-29 12:00:60 +0000",
      "+262143-10-29 12:00:00 +0000",
      "2026-10-29 12:00:00",
      "2026-02-30 12:00:00 +0000" }

\* The test key's signature of the first deadline.
TEST_SIGNATURE ==
    "c400b88d32c02bdfe4eea44f820733ac3235f6e869416861dca315a6d5c93d742159df8c7bed0f3377051f9ebd59da54a5ab9d7fb9e918d26bf182116410e9ba00"

\* What a claim may carry as its signature when it arrives: nothing; the test
\* key's signature of the first deadline with the prefix, without it, in upper
\* case, cut to 64 bytes, with 27 or with the other parity as its recovery id;
\* the signature of the key 1; text that is no hex; 65 zero bytes; the test
\* key's signature with a blank between r and s.
SignatureInputs ==
    { "",
      "0x" \o TEST_SIGNATURE,
      TEST_SIGNATURE,
      "0xC400B88D32C02BDFE4EEA44F820733AC3235F6E869416861DCA315A6D5C93D742159DF8C7BED0F3377051F9EBD59DA54A5AB9D7FB9E918D26BF182116410E9BA00",
      "0x" \o SubSeq(TEST_SIGNATURE, 1, 128),
      "0xc400b88d32c02bdfe4eea44f820733ac3235f6e869416861dca315a6d5c93d742159df8c7bed0f3377051f9ebd59da54a5ab9d7fb9e918d26bf182116410e9ba1b",
      "0xc400b88d32c02bdfe4eea44f820733ac3235f6e869416861dca315a6d5c93d742159df8c7bed0f3377051f9ebd59da54a5ab9d7fb9e918d26bf182116410e9ba01",
      "0x1e3cf628e1eb65a518bf313338f4b6935d9d3e3646522a310255efb7918d801c1717682855c5caadd37e82c7cb80a254cd675cb741a07286b9a6d2d1b6b388c901",
      "0xzz",
      "0x0000000000000000000000000000000000000000000000000000000000000000000000000000000000000000000000000000000000000000000000000000000000",
      "0x" \o SubSeq(TEST_SIGNATURE, 1, 64) \o " " \o SubSeq(TEST_SIGNATURE, 65, 130) }

Claims == [address : AddressInputs, date_message : DateInputs, signature : SignatureInputs]

Deadlines == {ParseDate(d).v : d \in {d \in DateInputs : ParseDate(d).ok}}

\* Utc::now(): a whole second within TimeSkew seconds of a deadline's second, or
\* within that second, one nanosecond past its start or short of its end.
NowInputs ==
    {Instant(t.day, t.sec + k, 0) : t \in Deadlines, k \in (-TimeSkew)..TimeSkew}
    \cup {Instant(t.day, t.sec, n) : t \in Deadlines, n \in {1, NANOS_PER_SECOND - 1}}

(***************************************************************************)
(* Initial state: the hash holds whatever it held before; no call yet.     *)
(***************************************************************************)
StoreInit(hashes, tracking) ==
    /\ status_list \in hashes
    /\ track = tracking
    /\ issued = 0
    /\ order = <<>>
    /\ pc = [s \in Sessions |-> "idle"]
    /\ call = [s \in Sessions |-> NoCall]
    /\ pipe = [s \in Sessions |-> <<>>]
    /\ replies = [s \in Sessions |-> <<>>]
    /\ result = [s \in Sessions |-> Ok(Unit)]
    /\ prev = [s \in Sessions |-> NoPrev]
    /\ was_empty = [s \in Sessions |-> FALSE]

(***************************************************************************)
(* The operations, up to their await.                                      *)
(***************************************************************************)
Issue(s, c, cmds) ==
    /\ pc[s] = "idle"
    /\ track => issued < MaxCalls
    /\ issued' = IF track THEN issued + 1 ELSE issued
    /\ pc' = [pc EXCEPT ![s] = "awaiting"]
    /\ call' = [call EXCEPT ![s] = c]
    /\ pipe' = [pipe EXCEPT ![s] = cmds]
    /\ replies' = [replies EXCEPT ![s] = <<>>]
    /\ UNCHANGED <<status_list, result, track, order, sign_vars>>

\* A write forgets what came before it; a read remembers the call it follows.
IssueWrite(s, c, cmds) ==
    /\ Issue(s, c, cmds)
    /\ prev' = [prev EXCEPT ![s] = NoPrev]
    /\ was_empty' = [was_empty EXCEPT ![s] = ~track /\ status_list = EmptyHash]

IssueRead(s, c, cmds) ==
    /\ Issue(s, c, cmds)
    /\ prev' = [prev EXCEPT ![s] =
                    IF track THEN NoPrev
                    ELSE IF call[s].op \in {"insert", "bulk"}
                    THEN [call |-> call[s], result |-> result[s]]
                    ELSE prev[s]]
    /\ UNCHANGED was_empty

insert_ip_status(s, ip, status) ==
    IssueWrite(s, [op |-> "insert", ip |-> ip, status |-> status],
               InsertCommands(ip, status))

bulk_insert_ip_status(s, payload) ==
    IssueWrite(s, [op |-> "bulk", payload |-> payload], BulkInsertCommands(payload))

read_ip_status(s, ip) ==
    IssueRead(s, [op |-> "read", ip |-> ip], ReadCommands(ip))

read_ip_status_list(s) ==
    IssueRead(s, [op |-> "readAll"], ReadListCommands)

(***************************************************************************)
(* Redis and the connection.                                               *)
(***************************************************************************)
\* The server executes the next command of a connection, atomically.
redis_execute(s) ==
    /\ pc[s] = "awaiting"
    /\ pipe[s] # <<>>
    /\ status_list' = RedisApply(status_list, Head(pipe[s]))
    /\ replies' = [replies EXCEPT ![s] = Append(@, RedisReply(status_list, Head(pipe[s])))]
    /\ pipe' = [pipe EXCEPT ![s] = Tail(@)]
    /\ order' = IF track /\ IsWriteCommand(Head(pipe[s])) /\ ~Executed(replies[s])
                THEN Append(order, call[s]) ELSE order
    /\ UNCHANGED <<pc, call, result, prev, was_empty, track, issued, sign_vars>>

\* The server answers the next command with an error and does nothing.
redis_reject(s) ==
    /\ pc[s] = "awaiting"
    /\ pipe[s] # <<>>
    /\ replies' = [replies EXCEPT ![s] = Append(@, RedisError("response"))]
    /\ pipe' = [pipe EXCEPT ![s] = Tail(@)]
    /\ UNCHANGED <<status_list, pc, call, result, prev, was_empty, track, issued, order, sign_vars>>

\* The transport fails: what was not executed yet never is.
connection_lost(s) ==
    /\ pc[s] = "awaiting"
    /\ ~QueryFailed(replies[s])
    /\ \/ pipe[s] # <<>>
       \/ replies[s] # <<>>
    /\ replies' = [replies EXCEPT ![s] = Append(@, RedisError("io"))]
    /\ pipe' = [pipe EXCEPT ![s] = <<>>]
    /\ UNCHANGED <<status_list, pc, call, result, prev, was_empty, track, issued, order, sign_vars>>

(***************************************************************************)
(* The operations, from their await on.                                    *)
(***************************************************************************)
Return(s, op, r) ==
    /\ pc[s] = "awaiting"
    /\ call[s].op = op
    /\ pipe[s] = <<>>
    /\ pc' = [pc EXCEPT ![s] = "idle"]
    /\ result' = [result EXCEPT ![s] = r]
    /\ UNCHANGED <<status_list, call, pipe, replies, prev, was_empty, track, issued, order, sign_vars>>

insert_ip_status_return(s) == Return(s, "insert", WriteResult(replies[s]))

bulk_insert_ip_status_return(s) == Return(s, "bulk", WriteResult(replies[s]))

read_ip_status_return(s) == Return(s, "read", ReadResult(replies[s]))

read_ip_status_list_return(s) == Return(s, "readAll", ReadListResult(replies[s]))

(***************************************************************************)
(* The claim and the SignOps calls on it.                                  *)
(***************************************************************************)
SignInit(claims) ==
    /\ claim \in claims
    /\ ret = NoRet
    /\ signer = NoSecret

call_checksum_address ==
    /\ ret' = [op |-> "checksum_address", out |-> checksum_address(claim.address)]
    /\ UNCHANGED <<claim, signer, store_vars>>

call_is_valid_checksum_addr ==
    /\ ret' = [op |-> "is_valid_checksum_addr", out |-> is_valid_checksum_addr(claim.address)]
    /\ UNCHANGED <<claim, signer, store_vars>>

call_valid_addr_from_str ==
    /\ ret' = [op |-> "valid_addr_from_str", out |-> valid_addr_from_str(claim.address)]
    /\ UNCHANGED <<claim, signer, store_vars>>

\* sign(secret, &H256::from(message_hash)).unwrap(): a failure of the primitive
\* panics, and the claim is left as it was.
sign_message(secret) ==
    LET signature == ethkey_sign(secret, sign_message_hash(claim.date_message))
    IN  IF signature.ok
        THEN /\ claim' = [claim EXCEPT !.signature = "0x" \o signature.v]
             /\ signer' = secret
             /\ ret' = [op |-> "sign_message", secret |-> secret, out |-> Ok(Unit)]
             /\ UNCHANGED store_vars
        ELSE /\ ret' = [op |-> "sign_message", secret |-> secret, out |-> Panic]
             /\ UNCHANGED <<claim, signer, store_vars>>

call_verify_message(now) ==
    /\ ret' = [op |-> "verify_message", now |-> now, out |-> verify_message(claim, now)]
    /\ UNCHANGED <<claim, signer, store_vars>>

(***************************************************************************)
(* Spec: one session, every input.                                         *)
(***************************************************************************)
Init == StoreInit(Hashes, FALSE) /\ SignInit({NoClaim})

SessionNext(s, statuses, payloads) ==
    \/ \E ip \in IPs, status \in statuses : insert_ip_status(s, ip, status)
    \/ \E payload \in payloads : bulk_insert_ip_status(s, payload)
    \/ \E ip \in IPs : read_ip_status(s, ip)
    \/ read_ip_status_list(s)
    \/ redis_execute(s)
    \/ redis_reject(s)
    \/ connection_lost(s)
    \/ insert_ip_status_return(s)
    \/ bulk_insert_ip_status_return(s)
    \/ read_ip_status_return(s)
    \/ read_ip_status_list_return(s)

Next == SessionNext("s1", IpStatus, Payloads)

Spec == Init /\ [][Next]_vars

(***************************************************************************)
(* SpecConc: the sessions run concurrently on a hash that starts empty;    *)
(* the write calls are recorded in the order redis executed them.          *)
(***************************************************************************)
InitConc == StoreInit({EmptyHash}, TRUE) /\ SignInit({NoClaim})

\* The batches that name every ip once and give them all one code.
ConcPayloads ==
    {p \in Payloads :
        /\ Len(p) = Cardinality(IPs)
        /\ \A i, j \in 1..Len(p) : (i # j => p[i].ip # p[j].ip) /\ p[i].status = p[j].status}

NextConc == \E s \in Sessions : SessionNext(s, {"Blocked"}, ConcPayloads)

SpecConc == InitConc /\ [][NextConc]_vars

(***************************************************************************)
(* SpecSign: a claim arrives and is checksummed, validated, signed and     *)
(* verified, the clock read near its deadline.                             *)
(***************************************************************************)
InitSign == StoreInit({EmptyHash}, FALSE) /\ SignInit(Claims)

NextSign ==
    \/ call_checksum_address
    \/ call_is_valid_checksum_addr
    \/ call_valid_addr_from_str
    \/ \E secret \in {TEST_SECRET, ONE_SECRET, ZERO_SECRET} : sign_message(secret)
    \/ \E now \in NowInputs : call_verify_message(now)

SpecSign == InitSign /\ [][NextSign]_vars

(***************************************************************************)
(* Claims about the admission store, checked under Spec.                   *)
(***************************************************************************)
Returned(s, op) == pc[s] = "idle" /\ call[s].op = op

\* The reply of a completed single-command call cannot be decoded as an i8.
Undecodable(s) == ~QueryFailed(replies[s]) /\ ~I8FromRedisValue(replies[s][1]).ok

\* C3: read(ip) is fail-open. When the ip has no entry, or the store call failed
\* (transport, command), or the stored value is no i8, the call returns the
\* status None as a value: never an error, never Trusted or Blocked.
C3_ReadFailOpen ==
    \A s \in Sessions :
        ( /\ Returned(s, "read")
          /\ \/ call[s].ip \notin DOMAIN status_list
             \/ QueryFailed(replies[s])
             \/ Undecodable(s) )
        => result[s] = Ok("None")

\* A read of an ip stored as Blocked lost its connection and came back None.
C3_Witness ==
    \E s \in Sessions :
        /\ Returned(s, "read")
        /\ call[s].ip \in DOMAIN status_list
        /\ status_list[call[s].ip] = "1"
        /\ replies[s] = <<RedisError("io")>>
        /\ result[s] = Ok("None")

\* The last status of each ip of a batch, in the caller's order.
LastWins(payload) ==
    {<<payload[i].ip, payload[i].status>> :
        i \in {i \in 1..Len(payload) : \A j \in (i + 1)..Len(payload) : payload[j].ip # payload[i].ip}}

\* The ip/code pairs a write call asks the store to hold.
Written(c) ==
    IF c.op = "insert" THEN {<<c.ip, IpStatusAsI8(c.status)>>} ELSE LastWins(c.payload)

\* C4: a failed store command of insert or bulkInsert always reaches the caller
\* as StorageError; success is reported only for a write the store holds; read and
\* readAll absorb the same failure.
C4_WriteFailurePropagates ==
    \A s \in Sessions :
        /\ (Returned(s, "insert") \/ Returned(s, "bulk")) =>
              /\ QueryFailed(replies[s]) => result[s] = Err("StorageError")
              /\ result[s].ok =>
                    \A w \in Written(call[s]) :
                        /\ w[1] \in DOMAIN status_list
                        /\ status_list[w[1]] = I8ToString(w[2])
        /\ (Returned(s, "read") \/ Returned(s, "readAll")) => result[s].ok

\* A batch the server rejected: the hash does not hold it and the caller was told.
C4_Witness ==
    \E s \in Sessions :
        /\ Returned(s, "bulk")
        /\ Len(call[s].payload) = 2
        /\ replies[s] = <<RedisError("response")>>
        /\ status_list = EmptyHash
        /\ result[s] = Err("StorageError")

\* A readAll that follows a successful bulkInsert issued on an empty hash.
BulkThenReadAll(s) ==
    /\ Returned(s, "readAll")
    /\ prev[s].call.op = "bulk"
    /\ prev[s].result.ok
    /\ was_empty[s]
    /\ ~QueryFailed(replies[s])

\* C5: from an empty store, bulkInsert of a batch followed by readAll yields
\* exactly the batch's mappings with the raw codes, the last occurrence of an ip
\* winning.
C5_BulkThenReadAll ==
    \A s \in Sessions :
        BulkThenReadAll(s) => result[s] = Ok(LastWins(prev[s].call.payload))

\* The batch named one ip twice, first as Trusted and last with the raw code 42.
C5_Witness ==
    \E s \in Sessions :
        /\ BulkThenReadAll(s)
        /\ Len(prev[s].call.payload) = 2
        /\ prev[s].call.payload[1].ip = prev[s].call.payload[2].ip
        /\ prev[s].call.payload[1].status = 0
        /\ prev[s].call.payload[2].status = 42
        /\ result[s] = Ok({<<prev[s].call.payload[2].ip, 42>>})

\* fromCode, as the specification states it.
FromCode(c) == IF c = 0 THEN "Trusted" ELSE IF c = 1 THEN "Blocked" ELSE "None"

\* A read whose reply was decoded.
ReadSucceeded(s) ==
    /\ Returned(s, "read")
    /\ ~QueryFailed(replies[s])
    /\ ~Undecodable(s)

ReadsMostRecent ==
    \A s \in Sessions :
        ReadSucceeded(s) =>
            /\ call[s].ip \in DOMAIN status_list
            /\ result[s] = Ok(FromCode(ParseI8(status_list[call[s].ip]).v))
            /\ (prev[s].result.ok /\ prev[s].call.op \in {"insert", "bulk"}) =>
                    \A w \in Written(prev[s].call) :
                        w[1] = call[s].ip => result[s] = Ok(FromCode(w[2]))
            /\ (prev[s].result.ok /\ prev[s].call.op = "insert"
                    /\ prev[s].call.ip = call[s].ip) =>
                    result[s] = Ok(prev[s].call.status)

NeverRemoved == \A ip \in DOMAIN status_list : ip \in DOMAIN status_list'

\* C9: a successful read(ip) returns fromCode of the code most recently stored
\* for ip (0 Trusted, 1 Blocked, anything else None); after a successful
\* insert(ip, s) it returns s; and no operation removes a stored ip.
C9_ReadReturnsFromCode == []ReadsMostRecent /\ [][NeverRemoved]_vars

\* A read that follows a batch storing the raw code 42 for its ip returned None.
C9_Witness ==
    \E s \in Sessions :
        /\ ReadSucceeded(s)
        /\ prev[s].call.op = "bulk"
        /\ prev[s].result.ok
        /\ <<call[s].ip, 42>> \in Written(prev[s].call)
        /\ status_list[call[s].ip] = "42"
        /\ result[s] = Ok("None")

(***************************************************************************)
(* Claims about concurrent sessions, checked under SpecConc.               *)
(***************************************************************************)
IsWriteCall(c) == c.op \in {"insert", "bulk"}

\* A write call applied as a whole: every ip it names gets the call's last code.
ApplyWriteCall(hash, c) ==
    [x \in DOMAIN hash \cup {w[1] : w \in Written(c)} |->
        IF \E w \in Written(c) : w[1] = x
        THEN I8ToString((CHOOSE w \in Written(c) : w[1] = x)[2])
        ELSE hash[x]]

\* calls[f[1]], calls[f[2]], ... applied one after the other to the empty hash.
RECURSIVE ApplyInOrder(_, _, _)
ApplyInOrder(calls, f, n) ==
    IF n = 0 THEN EmptyHash
    ELSE ApplyWriteCall(ApplyInOrder(calls, f, n - 1), calls[f[n]])

Orderings(n) == {f \in [1..n -> 1..n] : \A i, j \in 1..n : i # j => f[i] # f[j]}

\* No command is on its way to redis: the mapping is final for the calls issued.
Settled == \A s \in Sessions : pipe[s] = <<>>

\* The mapping is what the executed write calls give in some sequential order.
Linearizable ==
    Settled =>
        \E f \in Orderings(Len(order)) :
            status_list = ApplyInOrder(order, f, Len(order))

\* Every value held was written by some call for that ip.
OnlyWrittenValues ==
    \A ip \in DOMAIN status_list :
        \E i \in 1..Len(order) :
            \E w \in Written(order[i]) : w[1] = ip /\ status_list[ip] = I8ToString(w[2])

\* Every call sends exactly one command.
OneCommandPerCall ==
    \A s \in Sessions : (pc[s] = "idle" /\ pc'[s] = "awaiting") => Len(pipe'[s]) = 1

\* The mapping changes only when redis executes the command of a write call.
OnlyWritesChange ==
    status_list' # status_list =>
        \E s \in Sessions :
            /\ pc[s] = "awaiting"
            /\ IsWriteCall(call[s])
            /\ pipe[s] # <<>>
            /\ pipe'[s] = Tail(pipe[s])

\* C10: concurrent writers need no locks. Every insert and bulkInsert sends one
\* command and never reads before it writes, so under every interleaving the
\* final mapping is that of the write calls applied in some sequential order, no
\* ip holds a value no call wrote, and read and readAll leave the mapping alone.
C10_NoLocksNeeded ==
    /\ []Linearizable
    /\ []OnlyWrittenValues
    /\ [][OneCommandPerCall /\ OnlyWritesChange]_vars

\* Two batches are in flight together, neither call has returned yet, and redis
\* has executed both: the one executed second decides both ips.
C10_Witness ==
    /\ pc["s1"] = "awaiting" /\ pc["s2"] = "awaiting"
    /\ call["s1"].op = "bulk" /\ call["s2"].op = "bulk"
    /\ Settled
    /\ order = <<call["s2"], call["s1"]>>
    /\ Executed(replies["s1"]) /\ Executed(replies["s2"])
    /\ call["s1"].payload[1].status # call["s2"].payload[1].status
    /\ status_list = ApplyWriteCall(EmptyHash, call["s1"])

(***************************************************************************)
(* Claims about signed messages, checked under SpecSign.                   *)
(***************************************************************************)
\* The last call was verify_message, on the claim as it is now.
Verified == ret.op = "verify_message"

\* The text after one leading "0x", or the text itself.
Unprefixed(s) == IF starts_with(s, "0x") THEN SubSeq(s, 3, Len(s)) ELSE s

DateParses(c) == ParseDate(c.date_message).ok

\* The address is the prefix 0x and text that decodes to 20 bytes: 40 hex
\* digits, once its blanks are left out.
AddressDecodes(c) ==
    LET digits == WithoutBlanks(SubSeq(c.address, 3, Len(c.address)))
    IN  /\ starts_with(c.address, "0x")
        /\ AllHex(digits)
        /\ Len(digits) = 2 * ADDRESS_LEN

\* The address equals its own checksum encoding.
AddressChecksummed(c) == checksum_address(c.address) = Ok(c.address)

\* The signature, one leading 0x dropped, decodes to exactly 65 bytes.
SignatureDecodes(c) ==
    LET digits == WithoutBlanks(Unprefixed(c.signature))
    IN  AllHex(digits) /\ Len(digits) = 2 * SIGNATURE_LEN

\* The address recovered from the hash of the date and the signature.
Recovered(c) ==
    RecoverTable(to_lowercase(WithoutBlanks(Unprefixed(c.signature))),
                 sign_message_hash(c.date_message))

RecoveredIsAddress(c) ==
    /\ Recovered(c).ok
    /\ Recovered(c).v = to_lowercase(WithoutBlanks(Unprefixed(c.address)))

\* C1: verify returns true only if every check passed (the date parses, now is
\* not after it, the address is 0x plus exactly 40 hex characters and is its own
\* checksum encoding, the signature decodes to exactly 65 bytes, the recovered
\* address is the claim's); and when the earlier checks pass, it returns true
\* exactly when the recovered address is the claim's. The conditions are the
\* statement's own: Exactly40Hex is what it asks of the address, which is not
\* what addr_from_str accepts (AddressDecodes).
C1_TrueOnlyIfEveryCheckPassed ==
    LET Exactly40Hex ==
            /\ starts_with(claim.address, "0x")
            /\ Len(claim.address) = 2 + 2 * ADDRESS_LEN
            /\ AllHex(SubSeq(claim.address, 3, Len(claim.address)))
        EarlierChecks ==
            /\ DateParses(claim)
            /\ ~After(ret.now, ParseDate(claim.date_message).v)
            /\ Exactly40Hex
            /\ AddressChecksummed(claim)
            /\ SignatureDecodes(claim)
    IN  Verified =>
            /\ ret.out = Ok(TRUE) => EarlierChecks /\ RecoveredIsAddress(claim)
            /\ EarlierChecks => (ret.out = Ok(TRUE) <=> RecoveredIsAddress(claim))

    /\ After(ret.now, ParseDate(claim.date_message).v)
    /\ ret.now = [ParseDate(claim.date_message).v EXCEPT !.nano = 1]
    /\ ~AddressDecodes(claim)
    /\ ~SignatureDecodes(claim)
    /\ ret.out = Ok(FALSE)

\* KeyPair::address(): the address of the public key of a secret.
KeyPairAddress(secret) ==
    CASE secret = TEST_SECRET -> "bab36286672fbdc7b250804bf6d14be0df69fa29"
      [] secret = ONE_SECRET -> "7e5f4552091a69125d5dfcb7b8c2659029395bdf"

\* The claim was signed here with a key whose checksummed address it carries,
\* and then verified no later than its date.
SignedThenVerified ==
    /\ Verified
    /\ signer # NoSecret
    /\ checksum_address(KeyPairAddress(signer)) = Ok(claim.address)
    /\ DateParses(claim)
    /\ ~After(ret.now, ParseDate(claim.date_message).v)

\* C6: sign-then-verify round trip. For a claim that carries the checksummed
\* address of the key and a well-formed date not before now, sign followed by
\* verify returns true; sign changes the signature only, never the address or
\* the date.
C6_SignThenVerify ==
    /\ [](SignedThenVerified => ret.out = Ok(TRUE))
    /\ [][claim'.address = claim.address /\ claim'.date_message = claim.date_message]_vars

\* The key 1 signed the claim that carries its address, and the claim was
\* verified at the very second of its deadline.
C6_Witness ==
    /\ SignedThenVerified
    /\ signer = ONE_SECRET
    /\ ret.now = ParseDate(claim.date_message).v
    /\ starts_with(claim.signature, "0x")
    /\ ret.out = Ok(TRUE)

\* C7: when the signing primitive fails, sign returns CryptoError to its caller
\* as an error value.
C7_SignFailureIsCryptoError ==
    (/\ ret.op = "sign_message"
     /\ ~ethkey_sign(ret.secret, sign_message_hash(claim.date_message)).ok)
        => ret.out = Err("CryptoError")

Is40Hex(a) == Len(Unprefixed(a)) = 2 * ADDRESS_LEN /\ AllHex(Unprefixed(a))

DiffersInCaseOnly(a, b) == a # b /\ to_lowercase(a) = to_lowercase(b)

\* C8: computeChecksum is idempotent and its output is a valid checksum address,
\* for every address of 40 hex characters in any case, with or without the 0x;
\* isValidChecksum compares the text as given, so an address that differs from
\* its checksum encoding in letter case only is reported invalid.
C8_ChecksumIdempotent ==
    /\ (ret.op = "checksum_address" /\ Is40Hex(claim.address)) =>
          /\ ret.out.ok
          /\ checksum_address(ret.out.v) = ret.out
          /\ is_valid_checksum_addr(ret.out.v) = Ok(TRUE)
    /\ (/\ ret.op = "is_valid_checksum_addr"
        /\ checksum_address(claim.address).ok
        /\ DiffersInCaseOnly(claim.address, checksum_address(claim.address).v)) =>
          ret.out = Ok(FALSE)

\* An address in lower case with no prefix was checksummed into mixed case.
C8_Witness ==
    /\ ret.op = "checksum_address"
    /\ claim.address = "bab36286672fbdc7b250804bf6d14be0df69fa29"
    /\ ret.out = Ok("0xbAB36286672fbdc7B250804bf6D14Be0dF69fa29")
    /\ checksum_address(ret.out.v) = ret.out

====
